---- MODULE Spec2Model ----
(***************************************************************************)
(* A model of the chapter 2 pipeline of jpcc:                              *)
(*   C AST --c_to_tac--> TAC AST --gen_Program--> ASM AST --gas--> text    *)
(* (c_to_tac.py, tac_to_amd64.py, amd64.py), together with a small amd64   *)
(* machine that executes the generated statements.                        *)
(*                                                                         *)
(* Spec runs the three stage functions one after the other, any number of  *)
(* times, in processes that each start with g_state.nextTmp = 0 and a      *)
(* selected target; the target does not change within a process.         *)
(* SpecSymbols exercises _get_symbol alone, SpecLowering c_to_tac on       *)
(* expressions it may not support, SpecCodegen gen_Program on TAC programs *)
(* of any shape, SpecRetarget a change of target between gen_Program and   *)
(* gas(), SpecComment the emission of single wide statements, and          *)
(* SpecDriver the drivers (__main__.py of chapters 1 and 2) from the       *)
(* command line to the exit status.  Integer literals are within           *)
(* 0..INT_MAX, and EvalExpression gives an expression its 32-bit wrapping  *)
(* value.                                                                  *)
(***************************************************************************)
EXTENDS Integers, Sequences, FiniteSets, TLC

(***************************************************************************)
(* Bounds of the model.                                                    *)
(***************************************************************************)
\* deepest nesting of unary operators in an input expression
MaxDepth == 3
\* most c_to_tac invocations in one process (caps g_state.nextTmp)
MaxRuns == 2

\* the limits of a 32-bit two's-complement int
INT_MAX == 2147483647
INT_MIN == -2147483647 - 1

\* integer literals of the input programs
ConstValues == {2, INT_MAX}
\* function names of the input programs
FuncNames == {"main", "f"}
\* a function name that makes the .globl line wider than comment_col
LongFuncName == "compute_checksum_v2"
\* names resolved in the symbol-table specification
SymNames == {"tmp0", "tmp1", "tmp2", "x"}

(***************************************************************************)
(* Targets.py                                                              *)
(***************************************************************************)
Target(os, arch) == [os |-> os, arch |-> arch]

supported_targets == <<Target("darwin", "x86_64")>>

\* The targets current_target is drawn from.  Only the first is in
\* supported_targets; the second exercises format_label's default branch.
TargetSet == {Target("darwin", "x86_64"), Target("linux", "x86_64")}

(***************************************************************************)
(* c.py: the C AST.                                                        *)
(***************************************************************************)
C_Complement == [tag |-> "Complement"]
C_Negate == [tag |-> "Negate"]
C_Constant(value) == [tag |-> "Constant", value |-> value]
C_Unary(op, expr) == [tag |-> "Unary", op |-> op, expr |-> expr]
C_Return(expr) == [tag |-> "Return", expr |-> expr]
C_Function(name, body) == [tag |-> "Function", name |-> name, body |-> body]
C_Program(funcdef) == [tag |-> "Program", funcdef |-> funcdef]

C_UnaryOperators == {C_Complement, C_Negate}

RECURSIVE C_Expressions(_)
\* the expressions of the subset with at most d nested unary operators
C_Expressions(d) ==
    IF d = 0 THEN {C_Constant(v) : v \in ConstValues}
    ELSE LET sub == C_Expressions(d - 1)
         IN  sub \cup {C_Unary(op, e) : op \in C_UnaryOperators, e \in sub}

\* the well-formed input programs: every expression under the short names,
\* the expressions of at most one operator under the long name
C_Programs ==
    {C_Program(C_Function(name, C_Return(e))) :
        name \in FuncNames, e \in C_Expressions(MaxDepth)}
    \cup {C_Program(C_Function(LongFuncName, C_Return(e))) : e \in C_Expressions(1)}

RECURSIVE Depth(_)
\* the number of unary operators of a C expression
Depth(e) == IF e.tag = "Unary" THEN 1 + Depth(e.expr) ELSE 0

RECURSIVE OpsInnermostFirst(_)
\* the operators of a C expression, innermost first
OpsInnermostFirst(e) ==
    IF e.tag = "Unary" THEN Append(OpsInnermostFirst(e.expr), e.op.tag) ELSE <<>>

RECURSIVE InnerConstant(_)
\* the integer literal at the core of a C expression
InnerConstant(e) == IF e.tag = "Unary" THEN InnerConstant(e.expr) ELSE e.value

(***************************************************************************)
(* 32-bit two's-complement arithmetic, on values in INT_MIN..INT_MAX.      *)
(***************************************************************************)
Neg32(x) == IF x = INT_MIN THEN INT_MIN ELSE 0 - x
\* ~x = -x - 1, computed without leaving INT_MIN..INT_MAX
Not32(x) == IF x >= 0 THEN (0 - x) - 1 ELSE 0 - (x + 1)

RECURSIVE EvalExpression(_)
\* the value of a C expression, evaluated innermost-first
EvalExpression(e) ==
    IF e.tag = "Constant" THEN e.value
    ELSE IF e.op.tag = "Complement" THEN Not32(EvalExpression(e.expr))
    ELSE Neg32(EvalExpression(e.expr))

(***************************************************************************)
(* tac.py: the TAC AST.                                                    *)
(***************************************************************************)
TAC_Constant(value) == [tag |-> "Constant", value |-> value]
TAC_Var(name) == [tag |-> "Var", name |-> name]
TAC_Complement == [tag |-> "Complement"]
TAC_Negate == [tag |-> "Negate"]
TAC_Unary(op, src, dst) == [tag |-> "Unary", op |-> op, src |-> src, dst |-> dst]
TAC_Return(val) == [tag |-> "Return", val |-> val]
TAC_Function(name, body) == [tag |-> "Function", name |-> name, body |-> body]
TAC_Program(funcdef) == [tag |-> "Program", funcdef |-> funcdef]

(***************************************************************************)
(* c_to_tac.py: lowering.  The functions that claim temporaries take the   *)
(* counter g_state.nextTmp and return it with their result.  A result with *)
(* ok = FALSE stands for the raised Exception("Unreachable").              *)
(***************************************************************************)
\* _next_tmp without the increment of state.nextTmp
_next_tmp_same(nextTmp) ==
    [var |-> TAC_Var("tmp" \o ToString(nextTmp)), nextTmp |-> nextTmp]

\* _next_tmp: claim the next tmp number and return a tmp Var
_next_tmp(nextTmp) ==
    [var |-> TAC_Var("tmp" \o ToString(nextTmp)), nextTmp |-> nextTmp + 1]

\* _translate_UnaryOperator swapping the two operators
_translate_UnaryOperator_swapped(op) ==
    CASE op.tag = "Complement" -> [ok |-> TRUE, op |-> TAC_Negate]
      [] op.tag = "Negate" -> [ok |-> TRUE, op |-> TAC_Complement]
      [] OTHER -> [ok |-> FALSE]

_translate_UnaryOperator(op) ==
    CASE op.tag = "Complement" -> [ok |-> TRUE, op |-> TAC_Complement]
      [] op.tag = "Negate" -> [ok |-> TRUE, op |-> TAC_Negate]
      [] OTHER -> [ok |-> FALSE]

\* _translate_Constant dropping the value
_translate_Constant_zero(con) == TAC_Constant(0)

_translate_Constant(con) == TAC_Constant(con.value)

\* the raise replaced by the return of an empty partial result
Raised_partial(nextTmp) ==
    [ok |-> TRUE, instructions |-> <<>>, dst |-> TAC_Var("tmp"), nextTmp |-> nextTmp]

\* raise Exception("Unreachable"): no result, g_state.nextTmp as it is then
Raised(nextTmp) == [ok |-> FALSE, nextTmp |-> nextTmp]

RECURSIVE _translate_Expression(_, _)
_translate_Expression(c_ast, nextTmp) ==
    IF c_ast.tag = "Unary" /\ c_ast.expr.tag = "Constant" THEN
        LET t == _next_tmp(nextTmp)
            op == _translate_UnaryOperator(c_ast.op)
        IN  IF ~op.ok THEN Raised(t.nextTmp)
            ELSE [ok |-> TRUE,
                  instructions |->
                      <<TAC_Unary(op.op, _translate_Constant(c_ast.expr), t.var)>>,
                  dst |-> t.var,
                  nextTmp |-> t.nextTmp]
    ELSE IF c_ast.tag = "Unary" /\ c_ast.expr.tag = "Unary" THEN
        LET inner == _translate_Expression(c_ast.expr, nextTmp)
        IN  IF ~inner.ok THEN inner
            ELSE LET t == _next_tmp(inner.nextTmp)
                     op == _translate_UnaryOperator(c_ast.op)
                 IN  IF ~op.ok THEN Raised(t.nextTmp)
                     ELSE [ok |-> TRUE,
                           instructions |->
                               Append(inner.instructions,
                                      TAC_Unary(op.op, inner.dst, t.var)),
                           dst |-> t.var,
                           nextTmp |-> t.nextTmp]
    ELSE Raised(nextTmp)

\* _translate_Statement returning a tmp that no instruction has written
_translate_Statement_unwritten(c_ast, nextTmp) ==
    IF c_ast.tag = "Return" /\ c_ast.expr.tag = "Constant" THEN
        [ok |-> TRUE,
         instructions |-> <<TAC_Return(TAC_Constant(c_ast.expr.value))>>,
         nextTmp |-> nextTmp]
    ELSE IF c_ast.tag = "Return" /\ c_ast.expr.tag = "Unary" THEN
        LET r == _translate_Expression(c_ast.expr, nextTmp)
        IN  IF ~r.ok THEN r
            ELSE [ok |-> TRUE,
                  instructions |->
                      Append(r.instructions, TAC_Return(_next_tmp(r.nextTmp).var)),
                  nextTmp |-> r.nextTmp]
    ELSE Raised(nextTmp)

\* _translate_Statement
_translate_Statement(c_ast, nextTmp) ==
    IF c_ast.tag = "Return" /\ c_ast.expr.tag = "Constant" THEN
        [ok |-> TRUE,
         instructions |-> <<TAC_Return(TAC_Constant(c_ast.expr.value))>>,
         nextTmp |-> nextTmp]
    ELSE IF c_ast.tag = "Return" /\ c_ast.expr.tag = "Unary" THEN
        LET r == _translate_Expression(c_ast.expr, nextTmp)
        IN  IF ~r.ok THEN r
            ELSE [ok |-> TRUE,
                  instructions |-> Append(r.instructions, TAC_Return(r.dst)),
                  nextTmp |-> r.nextTmp]
    ELSE Raised(nextTmp)

_translate_Function(c_ast, nextTmp) ==
    LET body == _translate_Statement(c_ast.body, nextTmp)
    IN  IF ~body.ok THEN body
        ELSE [ok |-> TRUE,
              funcdef |-> TAC_Function(c_ast.name, body.instructions),
              nextTmp |-> body.nextTmp]

_translate_Program(c_ast, nextTmp) ==
    LET f == _translate_Function(c_ast.funcdef, nextTmp)
    IN  IF ~f.ok THEN f
        ELSE [ok |-> TRUE, program |-> TAC_Program(f.funcdef), nextTmp |-> f.nextTmp]

\* c_to_tac(c_ast), run with g_state.nextTmp = nextTmp
c_to_tac(c_ast, nextTmp) == _translate_Program(c_ast, nextTmp)

(***************************************************************************)
(* amd64.py: the ASM AST and its rendering as GAS text.                    *)
(***************************************************************************)
tab_width == 8
comment_col_wide == 5 * tab_width

comment_col == 32

\* a statement's comment: None, a string, or the Fixup placeholder
NoComment == [tag |-> "None"]
Str(s) == [tag |-> "Str", s |-> s]
Fixup == [tag |-> "Fixup"]

Imm(value) == [tag |-> "Imm", value |-> value]
Stack(offset) == [tag |-> "Stack", offset |-> offset]
Register(name) == [tag |-> "Register", name |-> name]
RSP == Register("RSP")
RBP == Register("RBP")
EAX == Register("EAX")
R11D == Register("R11D")

Directive(name, content, comment) ==
    [kind |-> "Directive", name |-> name, content |-> content, comment |-> comment]
LabelDef(name, comment) == [kind |-> "LabelDef", name |-> name, comment |-> comment]
Comment(comment) == [kind |-> "Comment", comment |-> comment]
Ret(comment) == [kind |-> "Ret", comment |-> comment]
Pushq(arg, comment) == [kind |-> "Pushq", arg |-> arg, comment |-> comment]
Popq(arg, comment) == [kind |-> "Popq", arg |-> arg, comment |-> comment]
Negl(arg, comment) == [kind |-> "Negl", arg |-> arg, comment |-> comment]
Notl(arg, comment) == [kind |-> "Notl", arg |-> arg, comment |-> comment]
Movl(src, dst, comment) == [kind |-> "Movl", src |-> src, dst |-> dst, comment |-> comment]
Movq(src, dst, comment) == [kind |-> "Movq", src |-> src, dst |-> dst, comment |-> comment]
Subq(src, dst, comment) == [kind |-> "Subq", src |-> src, dst |-> dst, comment |-> comment]

Instruction0 == {"Ret"}
Instruction1 == {"Pushq", "Popq", "Negl", "Notl"}
Instruction2 == {"Movl", "Movq", "Subq"}

\* self.__class__.__name__.lower(), for the classes the pipeline builds
lower(classname) ==
    CASE classname = "RSP" -> "rsp"
      [] classname = "RBP" -> "rbp"
      [] classname = "EAX" -> "eax"
      [] classname = "R11D" -> "r11d"
      [] classname = "Ret" -> "ret"
      [] classname = "Pushq" -> "pushq"
      [] classname = "Popq" -> "popq"
      [] classname = "Negl" -> "negl"
      [] classname = "Notl" -> "notl"
      [] classname = "Movl" -> "movl"
      [] classname = "Movq" -> "movq"
      [] classname = "Subq" -> "subq"

_coalesce_none(x, default_value) == x

\* _coalesce: the default value where x is None
_coalesce(x, default_value) == IF x.tag # "None" THEN x ELSE Str(default_value)

\* _vlen counting a tab as one column
_vlen_len(s) == Len(s)

\* _vlen: the visible length of a string, tabs being 8 wide
_vlen(s) ==
    Len(s) + Cardinality({i \in 1..Len(s) : SubSeq(s, i, i) = "\t"}) * (tab_width - 1)

RECURSIVE Spaces(_)
\* n * " " (empty when n <= 0)
Spaces(n) == IF n <= 0 THEN "" ELSE " " \o Spaces(n - 1)

\* the text of a comment value inside an f-string
CommentText(comment) == IF comment.tag = "Str" THEN comment.s ELSE "<Fixup>"

\* _add_comment ignoring c_style
_add_comment_hash(stmt, comment, c_style) ==
    IF comment.tag = "None" THEN stmt
    ELSE stmt \o Spaces(comment_col - _vlen(stmt)) \o "# " \o CommentText(comment)

\* _add_comment; stmt is "" where the code passes None
_add_comment(stmt, comment, c_style) ==
    IF comment.tag = "None" THEN stmt
    ELSE LET pad == Spaces(comment_col - _vlen(stmt))
         IN  IF c_style
             THEN stmt \o pad \o "/* " \o CommentText(comment) \o " */"
             ELSE stmt \o pad \o "# " \o CommentText(comment)

\* format_label always prefixing
format_label_always(label, target) == "_" \o label

\* format_label, with targets.current_target = target
format_label(label, target) ==
    IF target.os = "darwin" THEN "_" \o label ELSE label

\* Operand.gas (a Fixup has no gas method; it is never rendered)
operand_gas(o) ==
    CASE o.tag = "Imm" -> "$" \o ToString(o.value)
      [] o.tag = "Stack" -> ToString(o.offset) \o "(%rbp)"
      [] o.tag = "Register" -> "%" \o lower(o.name)
      [] OTHER -> "<Fixup>"

\* Statement.get_comment and its overrides
get_comment(s) ==
    CASE s.kind = "Ret" -> _coalesce(s.comment, "Jump to the return address.")
      [] s.kind = "Pushq" ->
            _coalesce(s.comment,
                "Copy " \o operand_gas(s.arg) \o " on the stack and decrement %rsp.")
      [] s.kind = "Popq" ->
            _coalesce(s.comment,
                "Copy the top of the stack into " \o operand_gas(s.arg)
                    \o " and increment %rsp.")
      [] s.kind = "Negl" -> _coalesce(s.comment, "Negate " \o operand_gas(s.arg) \o ".")
      [] s.kind = "Notl" ->
            _coalesce(s.comment, "Flip all of the bits of " \o operand_gas(s.arg) \o ".")
      [] s.kind = "Movl" ->
            _coalesce(s.comment,
                "Copy (32-bit) " \o operand_gas(s.src) \o " to " \o operand_gas(s.dst) \o ".")
      [] s.kind = "Movq" ->
            _coalesce(s.comment,
                "Copy " \o operand_gas(s.src) \o " to " \o operand_gas(s.dst) \o ".")
      [] s.kind = "Subq" ->
            _coalesce(s.comment,
                "Subtract " \o operand_gas(s.src) \o " from " \o operand_gas(s.dst)
                    \o " into " \o operand_gas(s.dst))
      [] OTHER -> s.comment

\* the text of a statement, the label definition left undecorated
statement_line_plain_label(s, target) ==
    CASE s.kind = "Comment" -> ""
      [] s.kind \in Instruction0 -> "\t" \o lower(s.kind)
      [] s.kind \in Instruction1 -> "\t" \o lower(s.kind) \o " " \o operand_gas(s.arg)
      [] s.kind \in Instruction2 ->
            "\t" \o lower(s.kind) \o " " \o operand_gas(s.src) \o ", " \o operand_gas(s.dst)
      [] s.kind = "LabelDef" -> s.name \o ":"
      [] s.kind = "Directive" -> "\t" \o s.name \o " " \o s.content

\* the text of a statement before its comment is added
statement_line(s, target) ==
    CASE s.kind = "Comment" -> ""
      [] s.kind \in Instruction0 -> "\t" \o lower(s.kind)
      [] s.kind \in Instruction1 -> "\t" \o lower(s.kind) \o " " \o operand_gas(s.arg)
      [] s.kind \in Instruction2 ->
            "\t" \o lower(s.kind) \o " " \o operand_gas(s.src) \o ", " \o operand_gas(s.dst)
      [] s.kind = "LabelDef" -> format_label(s.name, target) \o ":"
      [] s.kind = "Directive" -> "\t" \o s.name \o " " \o s.content

\* Statement.gas choosing the comment style by the target OS
statement_gas_by_target(s, target) ==
    _add_comment(statement_line(s, target), get_comment(s),
                 s.kind = "Directive" /\ target.os = "darwin")

\* Statement.gas of every statement class
statement_gas(s, target) ==
    _add_comment(statement_line(s, target), get_comment(s), s.kind = "Directive")

RECURSIVE JoinLines(_, _)
\* "\n".join([s.gas() for s in statements])
JoinLines(statements, target) ==
    IF Len(statements) = 0 THEN ""
    ELSE IF Len(statements) = 1 THEN statement_gas(statements[1], target)
    ELSE statement_gas(Head(statements), target) \o "\n"
            \o JoinLines(Tail(statements), target)

\* Program.gas without the final newline
Program_gas_join_only(statements, target) == JoinLines(statements, target)

\* Program.gas
Program_gas(statements, target) == JoinLines(statements, target) \o "\n"

(***************************************************************************)
(* tac_to_amd64.py: code generation.  A symbol table is a function from    *)
(* the names it holds to their Stack operands.                             *)
(***************************************************************************)
EmptyTable_tmp0 == [n \in {"tmp0"} |-> Stack(0 - 8)]

EmptyTable == [n \in {} |-> Stack(0)]

RECURSIVE MinOffset(_, _)
MinOffset(offsets, lowest) ==
    IF offsets = {} THEN lowest
    ELSE LET o == CHOOSE x \in offsets : TRUE
         IN  MinOffset(offsets \ {o}, IF o < lowest THEN o ELSE lowest)

\* _lowest_offset counting the entries instead of reading the offsets
_lowest_offset_count(symbol_table) == 0 - Cardinality(DOMAIN symbol_table)

\* _lowest_offset: the lowest offset in the symbol table (0 when empty)
_lowest_offset(symbol_table) ==
    MinOffset({symbol_table[k].offset : k \in DOMAIN symbol_table}, 0)

\* _get_symbol placing every new symbol in the first slot
_get_symbol_first_slot(symbol, symbol_table) ==
    IF symbol \notin DOMAIN symbol_table
    THEN LET added == [n \in DOMAIN symbol_table \cup {symbol} |->
                          IF n = symbol THEN Stack(0 - 8) ELSE symbol_table[n]]
         IN  [slot |-> added[symbol], table |-> added]
    ELSE [slot |-> symbol_table[symbol], table |-> symbol_table]

\* _get_symbol: the slot of the symbol and the table after the call
_get_symbol(symbol, symbol_table) ==
    IF symbol \notin DOMAIN symbol_table
    THEN LET lowest == _lowest_offset(symbol_table)
             added == [n \in DOMAIN symbol_table \cup {symbol} |->
                          IF n = symbol THEN Stack(lowest - 8) ELSE symbol_table[n]]
         IN  [slot |-> added[symbol], table |-> added]
    ELSE [slot |-> symbol_table[symbol], table |-> symbol_table]

GenRaised == [ok |-> FALSE]

\* the match on an operand taking any other operand for the immediate 0
resolve_operand_lenient(operand, symbol_table) ==
    CASE operand.tag = "Var" ->
            LET r == _get_symbol(operand.name, symbol_table)
            IN  [ok |-> TRUE, src |-> r.slot, table |-> r.table]
      [] OTHER -> [ok |-> TRUE, src |-> Imm(0), table |-> symbol_table]

\* the match on tac_src / arg in _gen_Unary and _gen_Return
resolve_operand(operand, symbol_table) ==
    CASE operand.tag = "Constant" ->
            [ok |-> TRUE, src |-> Imm(operand.value), table |-> symbol_table]
      [] operand.tag = "Var" ->
            LET r == _get_symbol(operand.name, symbol_table)
            IN  [ok |-> TRUE, src |-> r.slot, table |-> r.table]
      [] OTHER -> GenRaised

\* the match on op in _gen_Unary, with the two opcodes exchanged
unary_opcode_swapped(op) ==
    CASE op.tag = "Complement" -> [ok |-> TRUE, stmt |-> Negl(R11D, NoComment)]
      [] op.tag = "Negate" -> [ok |-> TRUE, stmt |-> Notl(R11D, NoComment)]
      [] OTHER -> GenRaised

\* the match on op in _gen_Unary
unary_opcode(op) ==
    CASE op.tag = "Complement" -> [ok |-> TRUE, stmt |-> Notl(R11D, NoComment)]
      [] op.tag = "Negate" -> [ok |-> TRUE, stmt |-> Negl(R11D, NoComment)]
      [] OTHER -> GenRaised

\* _gen_Unary storing before it applies the opcode
_gen_Unary_store_first(tac_ast, symbol_table) ==
    LET src == resolve_operand(tac_ast.src, symbol_table)
    IN  IF ~src.ok THEN GenRaised
        ELSE LET dst == _get_symbol(tac_ast.dst.name, src.table)
                 opc == unary_opcode(tac_ast.op)
             IN  IF ~opc.ok THEN GenRaised
                 ELSE [ok |-> TRUE,
                       statements |->
                           <<Movl(src.src, R11D, Str("Load.")),
                             Movl(R11D, dst.slot, Str("Store.")),
                             opc.stmt>>,
                       table |-> dst.table]

\* _gen_Unary; tac_dst.name raises when dst is not a Var
_gen_Unary(tac_ast, symbol_table) ==
    LET src == resolve_operand(tac_ast.src, symbol_table)
    IN  IF ~src.ok \/ tac_ast.dst.tag # "Var" THEN GenRaised
        ELSE LET dst == _get_symbol(tac_ast.dst.name, src.table)
                 opc == unary_opcode(tac_ast.op)
             IN  IF ~opc.ok THEN GenRaised
                 ELSE [ok |-> TRUE,
                       statements |->
                           <<Movl(src.src, R11D, Str("Load.")),
                             opc.stmt,
                             Movl(R11D, dst.slot, Str("Store."))>>,
                       table |-> dst.table]

\* _gen_Return restoring the base pointer before the stack pointer
_gen_Return_pop_first(tac_ast, symbol_table) ==
    LET src == resolve_operand(tac_ast.val, symbol_table)
    IN  IF ~src.ok THEN GenRaised
        ELSE [ok |-> TRUE,
              statements |->
                  <<Movl(src.src, EAX,
                         Str("Use " \o operand_gas(src.src) \o " as the return value.")),
                    Popq(RBP, Str("Restore the caller's base pointer.")),
                    Movq(RBP, RSP, Str("Tear down the stack frame.")),
                    Ret(Str("Jump to the return address."))>>,
              table |-> src.table]

\* _gen_Return
_gen_Return(tac_ast, symbol_table) ==
    LET src == resolve_operand(tac_ast.val, symbol_table)
    IN  IF ~src.ok THEN GenRaised
        ELSE [ok |-> TRUE,
              statements |->
                  <<Movl(src.src, EAX,
                         Str("Use " \o operand_gas(src.src) \o " as the return value.")),
                    Movq(RBP, RSP, Str("Tear down the stack frame.")),
                    Popq(RBP, Str("Restore the caller's base pointer.")),
                    Ret(Str("Jump to the return address."))>>,
              table |-> src.table]

\* _gen_Instruction leaving out the load of a Unary whose source is a Var,
\* the value being still in %r11d from the store before
_gen_Instruction_reuse(tac_ast, symbol_table) ==
    CASE tac_ast.tag = "Unary" ->
            LET r == _gen_Unary(tac_ast, symbol_table)
            IN  IF r.ok /\ tac_ast.src.tag = "Var"
                THEN [r EXCEPT !.statements = SubSeq(@, 2, 3)]
                ELSE r
      [] tac_ast.tag = "Return" -> _gen_Return(tac_ast, symbol_table)
      [] OTHER -> GenRaised

\* _gen_Instruction
_gen_Instruction(tac_ast, symbol_table) ==
    CASE tac_ast.tag = "Unary" -> _gen_Unary(tac_ast, symbol_table)
      [] tac_ast.tag = "Return" -> _gen_Return(tac_ast, symbol_table)
      [] OTHER -> GenRaised

\* the declaration and prologue, the frame pointer set before it is saved
gen_Function_prologue_swapped(funcname, target) ==
    LET funclabel == format_label(funcname, target)
    IN  <<Directive(".globl", funclabel,
                    Str("Make " \o funclabel \o " externally visible.")),
          LabelDef(funcname, Str("Begin function " \o funcname \o ".")),
          Movq(RSP, RBP, Str("Start a new stack frame.")),
          Pushq(RBP, Str("Save the caller's base pointer.")),
          Subq(Fixup, RSP, Fixup)>>

\* _gen_Function up to the loop over the body: declaration and prologue
gen_Function_prologue(funcname, target) ==
    LET funclabel == format_label(funcname, target)
    IN  <<Directive(".globl", funclabel,
                    Str("Make " \o funclabel \o " externally visible.")),
          LabelDef(funcname, Str("Begin function " \o funcname \o ".")),
          Pushq(RBP, Str("Save the caller's base pointer.")),
          Movq(RSP, RBP, Str("Start a new stack frame.")),
          Subq(Fixup, RSP, Fixup)>>

\* the index of allocate_stack in the statement list
AllocateStackIndex == 5

\* the fixup replacing the source operand alone
fixup_allocate_stack_src_only(allocate_stack, symbol_table) ==
    [allocate_stack EXCEPT !.src = Stack(_lowest_offset(symbol_table))]

\* the fixup of allocate_stack at the end of _gen_Function
fixup_allocate_stack(allocate_stack, symbol_table) ==
    LET lowest == _lowest_offset(symbol_table)
    IN  [allocate_stack EXCEPT
            !.src = Stack(lowest),
            !.comment = Str("Allocate " \o ToString(lowest * (0 - 1))
                                \o " bytes on the stack for locals.")]

RECURSIVE gen_body(_, _, _, _)
\* the loop of _gen_Function over body from instruction i on: the statements
\* appended to acc and the symbol table at the end
gen_body(body, i, symbol_table, acc) ==
    IF i > Len(body) THEN [ok |-> TRUE, statements |-> acc, table |-> symbol_table]
    ELSE LET r == _gen_Instruction(body[i], symbol_table)
         IN  IF ~r.ok THEN GenRaised
             ELSE gen_body(body, i + 1, r.table, acc \o r.statements)

\* _gen_Function as a whole, with targets.current_target = target
_gen_Function(tac_fn_ast, target) ==
    LET b == gen_body(tac_fn_ast.body, 1, EmptyTable,
                      gen_Function_prologue(tac_fn_ast.name, target))
    IN  IF ~b.ok THEN GenRaised
        ELSE [ok |-> TRUE,
              statements |->
                  Append([b.statements EXCEPT ![AllocateStackIndex] =
                              fixup_allocate_stack(@, b.table)],
                         Comment(Str("End function " \o tac_fn_ast.name \o "."))),
              table |-> b.table]

\* gen_Program: the statements of the amd64.Program it returns
gen_Program(tac_ast, target) == _gen_Function(tac_ast.funcdef, target)

(***************************************************************************)
(* The state of one process that runs the pipeline, and of the machine     *)
(* that executes the generated statements.                                 *)
(***************************************************************************)
VARIABLES
    nextTmp,         \* g_state.nextTmp of c_to_tac.py
    current_target,  \* targets.current_target
    pc,              \* the stage the current run has reached
    runs,            \* c_to_tac invocations of this process so far
    c_ast,           \* the C AST of the current run
    startTmp,        \* g_state.nextTmp when c_to_tac was entered
    tac_ast,         \* the tac.Program c_to_tac returned
    symbol_table,    \* symbol_table of _gen_Function
    statements,      \* statements of _gen_Function / amd64.Program
    gen_i,           \* index of the next instruction of the body to translate
    asm_text,        \* the string Program.gas() returned
    regs,            \* machine registers
    mem,             \* machine memory: the cells written so far, by address
    ip,              \* index of the next statement to execute
    prev,            \* the outputs of the first finished run of this C AST and target
    sym_ret,         \* the last _get_symbol call: its argument and the Stack returned
    sym_order,       \* the names given to _get_symbol, in order of first use
    chapter,         \* the driver that runs: that of chapter 1 or of chapter 2
    argv,            \* sys.argv[1:]
    g_flags,         \* the flags parse_command_line found
    g_options,       \* the options parse_command_line found, by name
    g_args,          \* the other arguments, in order
    exit_status,     \* the status the driver exited with (NoStatus while it runs)
    stages,          \* the stages the driver has run, in order
    gen_arg          \* what the driver passed to x86_64.gen_Program

vars == <<nextTmp, current_target, pc, runs, c_ast, startTmp, tac_ast,
          symbol_table, statements, gen_i, asm_text, regs, mem, ip, prev,
          sym_ret, sym_order, chapter, argv, g_flags, g_options, g_args,
          exit_status, stages, gen_arg>>

lowerVars == <<nextTmp, startTmp, tac_ast>>
genVars == <<symbol_table, statements, gen_i>>
machineVars == <<regs, mem, ip>>
symVars == <<sym_ret, sym_order>>
driverVars == <<chapter, argv, g_flags, g_options, g_args, exit_status, stages,
                gen_arg>>

NoAst == [tag |-> "None"]
NoPrev == [tag |-> "None"]

\* the driver before it has run, and its exit status while it runs
NoStatus == 0 - 1
NoOptions == [o \in {} |-> ""]
NoDriver ==
    /\ chapter = 2
    /\ argv = <<>>
    /\ g_flags = {}
    /\ g_options = NoOptions
    /\ g_args = <<>>
    /\ exit_status = NoStatus
    /\ stages = <<>>
    /\ gen_arg = NoAst

\* the machine before the call: %rsp at the return address, the caller's %rbp
StackTop == 4096
CallerRBP == 8192
\* what a read of an unwritten cell or register may yield
Garbage == {0, 24}

Init ==
    /\ nextTmp = 0
    /\ current_target \in TargetSet
    /\ pc = "start"
    /\ runs = 0
    /\ c_ast = NoAst
    /\ startTmp = 0
    /\ tac_ast = NoAst
    /\ symbol_table = EmptyTable
    /\ statements = <<>>
    /\ gen_i = 0
    /\ asm_text = ""
    /\ regs = [rsp |-> StackTop, rbp |-> CallerRBP, eax |-> 0, r11d |-> 0]
    /\ mem = [a \in {} |-> 0]
    /\ ip = 0
    /\ prev = NoPrev
    /\ sym_ret = [symbol |-> "", slot |-> Stack(0)]
    /\ sym_order = <<>>
    /\ NoDriver

\* A new process: the modules are loaded afresh (g_state = State(),
\* current_target as selected).
Restart ==
    /\ pc = "start"
    /\ runs > 0
    /\ nextTmp' = 0
    /\ runs' = 0
    /\ current_target' \in TargetSet
    /\ prev' = IF prev.tag = "Run" /\ prev.target = current_target' THEN prev ELSE NoPrev
    /\ UNCHANGED <<pc, c_ast, startTmp, tac_ast, genVars, asm_text, machineVars,
                   symVars>>
    /\ UNCHANGED driverVars

\* The parser adapter hands over a C AST.
Parse(p) ==
    /\ pc = "start"
    /\ runs < MaxRuns
    /\ c_ast' = p
    /\ runs' = runs + 1
    /\ pc' = "parsed"
    /\ prev' = IF prev.tag = "Run" /\ prev.c_ast = p THEN prev ELSE NoPrev
    /\ UNCHANGED <<nextTmp, current_target, startTmp, tac_ast, genVars, asm_text,
                   machineVars, symVars>>
    /\ UNCHANGED driverVars

\* tac_ast = c_to_tac(c_ast)
Lower ==
    /\ pc = "parsed"
    /\ LET r == c_to_tac(c_ast, nextTmp)
       IN  /\ nextTmp' = r.nextTmp
           /\ tac_ast' = IF r.ok THEN r.program ELSE NoAst
           /\ pc' = IF r.ok THEN "lowered" ELSE "failed"
    /\ startTmp' = nextTmp
    /\ UNCHANGED <<current_target, runs, c_ast, genVars, asm_text, machineVars,
                   prev, symVars>>
    /\ UNCHANGED driverVars

\* symbol_table = {} in _gen_Function, but keeping the table of the last call
InitialSymbolTable_stale == symbol_table

\* symbol_table = {} in _gen_Function
InitialSymbolTable == EmptyTable

\* gen_Program entered: _gen_Function emits the declaration and the prologue
GenBegin ==
    /\ pc = "lowered"
    /\ statements' = gen_Function_prologue(tac_ast.funcdef.name, current_target)
    /\ symbol_table' = InitialSymbolTable
    /\ gen_i' = 1
    /\ pc' = "gen"
    /\ UNCHANGED <<lowerVars, current_target, runs, c_ast, asm_text, machineVars,
                   prev, symVars>>
    /\ UNCHANGED driverVars

\* one iteration of the loop over tac_fn_ast.body
GenInstruction ==
    /\ pc = "gen"
    /\ gen_i <= Len(tac_ast.funcdef.body)
    /\ LET r == _gen_Instruction(tac_ast.funcdef.body[gen_i], symbol_table)
       IN  IF r.ok
           THEN /\ statements' = statements \o r.statements
                /\ symbol_table' = r.table
                /\ gen_i' = gen_i + 1
                /\ pc' = pc
           ELSE /\ pc' = "failed"
                /\ UNCHANGED genVars
    /\ UNCHANGED <<lowerVars, current_target, runs, c_ast, asm_text, machineVars,
                   prev, symVars>>
    /\ UNCHANGED driverVars

\* the loop is over: fix up the stack allocation, close the function,
\* and gen_Program returns amd64.Program(statements)
GenEnd ==
    /\ pc = "gen"
    /\ gen_i > Len(tac_ast.funcdef.body)
    /\ statements' =
          Append([statements EXCEPT ![AllocateStackIndex] =
                      fixup_allocate_stack(@, symbol_table)],
                 Comment(Str("End function " \o tac_ast.funcdef.name \o ".")))
    /\ pc' = "generated"
    /\ UNCHANGED <<lowerVars, current_target, runs, c_ast, symbol_table, gen_i,
                   asm_text, machineVars, prev, symVars>>
    /\ UNCHANGED driverVars

\* asm_text = asm_ast.gas()
Gas ==
    /\ pc = "generated"
    /\ asm_text' = Program_gas(statements, current_target)
    /\ pc' = "emitted"
    /\ UNCHANGED <<lowerVars, current_target, runs, c_ast, genVars, machineVars,
                   prev, symVars>>
    /\ UNCHANGED driverVars

(***************************************************************************)
(* The machine: 64-bit %rsp and %rbp, 32-bit %eax and %r11d, and memory    *)
(* addressed relative to %rbp.  It executes the statements in emission     *)
(* order; directives, labels and comments execute nothing.                 *)
(***************************************************************************)
RegName(o) == lower(o.name)

\* the values a read of an operand may yield
ReadOperand(o) ==
    CASE o.tag = "Imm" -> {o.value}
      [] o.tag = "Register" -> {regs[RegName(o)]}
      [] o.tag = "Stack" ->
            IF regs.rbp + o.offset \in DOMAIN mem
            THEN {mem[regs.rbp + o.offset]}
            ELSE Garbage

\* memory after cell a is written
Store(a, v) == [x \in DOMAIN mem \cup {a} |-> IF x = a THEN v ELSE mem[x]]

Running == pc = "running" /\ ip >= 1 /\ ip <= Len(statements)

\* the function is called: the return address is on top of the stack
Call ==
    /\ pc = "emitted"
    /\ \E g \in Garbage :
          regs' = [rsp |-> StackTop, rbp |-> CallerRBP, eax |-> g, r11d |-> g]
    /\ mem' = [a \in {} |-> 0]
    /\ ip' = 1
    /\ pc' = "running"
    /\ UNCHANGED <<lowerVars, current_target, runs, c_ast, genVars, asm_text,
                   prev, symVars>>
    /\ UNCHANGED driverVars

ExecNop ==
    /\ Running
    /\ statements[ip].kind \in {"Directive", "LabelDef", "Comment"}
    /\ ip' = ip + 1
    /\ UNCHANGED <<lowerVars, current_target, pc, runs, c_ast, genVars, asm_text,
                   regs, mem, prev, symVars>>
    /\ UNCHANGED driverVars

ExecPushq ==
    /\ Running
    /\ statements[ip].kind = "Pushq"
    /\ \E v \in ReadOperand(statements[ip].arg) :
          /\ regs' = [regs EXCEPT !.rsp = @ - 8]
          /\ mem' = Store(regs.rsp - 8, v)
    /\ ip' = ip + 1
    /\ UNCHANGED <<lowerVars, current_target, pc, runs, c_ast, genVars, asm_text,
                   prev, symVars>>
    /\ UNCHANGED driverVars

ExecPopq ==
    /\ Running
    /\ statements[ip].kind = "Popq"
    /\ \E v \in (IF regs.rsp \in DOMAIN mem THEN {mem[regs.rsp]} ELSE Garbage) :
          regs' = [[regs EXCEPT !.rsp = @ + 8] EXCEPT ![RegName(statements[ip].arg)] = v]
    /\ ip' = ip + 1
    /\ UNCHANGED <<lowerVars, current_target, pc, runs, c_ast, genVars, asm_text,
                   mem, prev, symVars>>
    /\ UNCHANGED driverVars

\* movl and movq: copy src to dst
ExecMov ==
    /\ Running
    /\ statements[ip].kind \in {"Movl", "Movq"}
    /\ \E v \in ReadOperand(statements[ip].src) :
          IF statements[ip].dst.tag = "Register"
          THEN /\ regs' = [regs EXCEPT ![RegName(statements[ip].dst)] = v]
               /\ mem' = mem
          ELSE /\ mem' = Store(regs.rbp + statements[ip].dst.offset, v)
               /\ regs' = regs
    /\ ip' = ip + 1
    /\ UNCHANGED <<lowerVars, current_target, pc, runs, c_ast, genVars, asm_text,
                   prev, symVars>>
    /\ UNCHANGED driverVars

\* subq: dst = dst - src
ExecSubq ==
    /\ Running
    /\ statements[ip].kind = "Subq"
    /\ \E v \in ReadOperand(statements[ip].src) :
          regs' = [regs EXCEPT ![RegName(statements[ip].dst)] = @ - v]
    /\ ip' = ip + 1
    /\ UNCHANGED <<lowerVars, current_target, pc, runs, c_ast, genVars, asm_text,
                   mem, prev, symVars>>
    /\ UNCHANGED driverVars

\* negl and notl on a 32-bit register
ExecUnary ==
    /\ Running
    /\ statements[ip].kind \in {"Negl", "Notl"}
    /\ regs' = [regs EXCEPT ![RegName(statements[ip].arg)] =
                   IF statements[ip].kind = "Negl" THEN Neg32(@) ELSE Not32(@)]
    /\ ip' = ip + 1
    /\ UNCHANGED <<lowerVars, current_target, pc, runs, c_ast, genVars, asm_text,
                   mem, prev, symVars>>
    /\ UNCHANGED driverVars

\* ret: pop the return address and leave the function
ExecRet ==
    /\ Running
    /\ statements[ip].kind = "Ret"
    /\ regs' = [regs EXCEPT !.rsp = @ + 8]
    /\ pc' = "returned"
    /\ UNCHANGED <<lowerVars, current_target, runs, c_ast, genVars, asm_text,
                   mem, ip, prev, symVars>>
    /\ UNCHANGED driverVars

\* The run is over: its values are dropped (the dict that was the symbol
\* table is left as it is).  The outputs of the first run of a C AST under a
\* target are kept for comparison with the later runs of the same C AST
\* under the same target.
Finish ==
    /\ pc = "returned"
    /\ prev' = IF prev.tag = "Run" THEN prev
                ELSE [tag |-> "Run", c_ast |-> c_ast, tac_ast |-> tac_ast,
                      statements |-> statements, asm_text |-> asm_text,
                      startTmp |-> startTmp, target |-> current_target]
    /\ pc' = "start"
    /\ c_ast' = NoAst
    /\ startTmp' = 0
    /\ tac_ast' = NoAst
    /\ statements' = <<>>
    /\ gen_i' = 0
    /\ asm_text' = ""
    /\ regs' = [rsp |-> StackTop, rbp |-> CallerRBP, eax |-> 0, r11d |-> 0]
    /\ mem' = [a \in {} |-> 0]
    /\ ip' = 0
    /\ UNCHANGED <<nextTmp, current_target, runs, symbol_table, symVars>>
    /\ UNCHANGED driverVars

Next ==
    \/ Restart
    \/ \E p \in C_Programs : Parse(p)
    \/ Lower
    \/ GenBegin
    \/ GenInstruction
    \/ GenEnd
    \/ Gas
    \/ Call
    \/ ExecNop
    \/ ExecPushq
    \/ ExecPopq
    \/ ExecMov
    \/ ExecSubq
    \/ ExecUnary
    \/ ExecRet
    \/ Finish

Spec == Init /\ [][Next]_vars

(***************************************************************************)
(* The symbol table on its own: any sequence of _get_symbol calls on one   *)
(* table.                                                                  *)
(***************************************************************************)
InitSymbols ==
    /\ Init
    /\ current_target = supported_targets[1]

GetSymbolCall(symbol) ==
    /\ LET r == _get_symbol(symbol, symbol_table)
       IN  /\ symbol_table' = r.table
           /\ sym_ret' = [symbol |-> symbol, slot |-> r.slot]
    /\ sym_order' = IF \E i \in 1..Len(sym_order) : sym_order[i] = symbol
                    THEN sym_order ELSE Append(sym_order, symbol)
    /\ UNCHANGED <<lowerVars, current_target, pc, runs, c_ast, statements, gen_i,
                   asm_text, machineVars, prev>>
    /\ UNCHANGED driverVars

NextSymbols == \E symbol \in SymNames : GetSymbolCall(symbol)

SpecSymbols == InitSymbols /\ [][NextSymbols]_vars

(***************************************************************************)
(* Properties.                                                             *)
(***************************************************************************)
\* the return expression of the current C AST, and the body of its lowering
Expr == c_ast.funcdef.body.expr
Body == tac_ast.funcdef.body

\* return ~(-2);
CompNeg2 == C_Unary(C_Complement, C_Unary(C_Negate, C_Constant(2)))

\* --- the TAC instructions, executed in list order ---
TacValue(operand, env) ==
    CASE operand.tag = "Constant" -> [ok |-> TRUE, value |-> operand.value]
      [] operand.tag = "Var" /\ operand.name \in DOMAIN env ->
            [ok |-> TRUE, value |-> env[operand.name]]
      [] OTHER -> [ok |-> FALSE]

RECURSIVE ExecTAC(_, _, _)
\* run body from instruction i in environment env, up to the first Return
ExecTAC(body, i, env) ==
    IF i > Len(body) THEN [ok |-> FALSE]
    ELSE IF body[i].tag = "Return" THEN TacValue(body[i].val, env)
    ELSE LET v == TacValue(body[i].src, env)
         IN  IF ~v.ok THEN [ok |-> FALSE]
             ELSE LET r == IF body[i].op.tag = "Complement"
                           THEN Not32(v.value) ELSE Neg32(v.value)
                      d == body[i].dst.name
                  IN  ExecTAC(body, i + 1,
                              [n \in DOMAIN env \cup {d} |->
                                  IF n = d THEN r ELSE env[n]])

\* the names of the Vars that occur in a TAC body
VarNames(body) ==
    {body[i].src.name : i \in {j \in 1..Len(body) :
                                body[j].tag = "Unary" /\ body[j].src.tag = "Var"}}
    \cup {body[i].dst.name : i \in {j \in 1..Len(body) :
                                body[j].tag = "Unary" /\ body[j].dst.tag = "Var"}}
    \cup {body[i].val.name : i \in {j \in 1..Len(body) :
                                body[j].tag = "Return" /\ body[j].val.tag = "Var"}}

\* C1: when the generated statements, executed in emission order, have
\* reached ret, %eax holds the 32-bit value of the source expression; for
\* return ~(-2); that value is 1.
C1_ReturnValue ==
    pc = "returned" =>
        /\ regs.eax = EvalExpression(Expr)
        /\ Expr = CompNeg2 => regs.eax = 1

C1_Witness == pc = "returned" /\ Expr = CompNeg2 /\ regs.eax = 1

\* C2: the TAC instructions c_to_tac returned, executed in list order, make
\* the Return operand evaluate to the value of the source expression.
C2_TacEquivalent ==
    pc = "lowered" =>
        LET r == ExecTAC(Body, 1, [n \in {} |-> 0])
        IN  r.ok /\ r.value = EvalExpression(Expr)

C2_Witness ==
    /\ pc = "lowered"
    /\ Expr = CompNeg2
    /\ ExecTAC(Body, 1, [n \in {} |-> 0]) = [ok |-> TRUE, value |-> 1]

\* C3: c_to_tac returns; for a constant N under n unary operators its body
\* is n Unary instructions then one Return; the k-th Unary carries the k-th
\* innermost operator, the first reads Constant(N), each later one reads the
\* dst of the one before, Return references the last dst; for n = 0 the body
\* is [Return(Constant(N))] and no temporary is claimed.
C3_LoweredShape ==
    /\ pc # "failed"
    /\ pc = "lowered" =>
          LET n == Depth(Expr)
              ops == OpsInnermostFirst(Expr)
              N == InnerConstant(Expr)
          IN  /\ Len(Body) = n + 1
              /\ \A k \in 1..n :
                    /\ Body[k].tag = "Unary"
                    /\ Body[k].op.tag = ops[k]
                    /\ Body[k].src = IF k = 1 THEN TAC_Constant(N) ELSE Body[k - 1].dst
                    /\ Body[k].dst.tag = "Var"
              /\ Body[n + 1] = TAC_Return(IF n = 0 THEN TAC_Constant(N) ELSE Body[n].dst)
              /\ n = 0 => nextTmp = startTmp

C3_Witness ==
    /\ pc = "lowered"
    /\ Depth(Expr) = 2
    /\ Len(Body) = 3
    /\ Body[2].src = Body[1].dst
    /\ Body[3] = TAC_Return(Body[2].dst)

\* C4: once the prologue has been executed, %rsp is exactly 8 x (number of
\* symbols) bytes below %rbp and every allocated stack slot lies between
\* %rsp and %rbp.
C4_FrameAllocated ==
    (pc = "running" /\ ip = AllocateStackIndex + 1) =>
        /\ regs.rsp = regs.rbp - 8 * Cardinality(DOMAIN symbol_table)
        /\ \A n \in DOMAIN symbol_table :
              /\ regs.rsp <= regs.rbp + symbol_table[n].offset
              /\ symbol_table[n].offset < 0

\* C5: in the Program gen_Program returns, the magnitude of the offset of
\* the patched stack allocation, and the byte count of its comment, are
\* 8 x the number of distinct Var names of the TAC body (0 for a body that is
\* only Return(Constant)), and no two names share a stack offset.
C5_AllocationSize ==
    pc = "generated" =>
        LET alloc == statements[AllocateStackIndex]
            size == 8 * Cardinality(VarNames(Body))
        IN  /\ alloc.kind = "Subq"
            /\ alloc.src = Stack(0 - size)
            /\ alloc.comment =
                  Str("Allocate " \o ToString(size) \o " bytes on the stack for locals.")
            /\ (Len(Body) = 1 /\ Body[1].val.tag = "Constant") => size = 0
            /\ DOMAIN symbol_table = VarNames(Body)
            /\ \A a, b \in DOMAIN symbol_table :
                  a # b => symbol_table[a].offset # symbol_table[b].offset

C5_Witness ==
    /\ pc = "generated"
    /\ Cardinality(VarNames(Body)) = 2
    /\ statements[AllocateStackIndex].src = Stack(0 - 16)

\* the names sym_order holds
OrderedNames == {sym_order[i] : i \in 1..Len(sym_order)}

\* what one _get_symbol call may do to the table
C6_CallEffect ==
    LET s == sym_ret'.symbol
    IN  /\ \A n \in DOMAIN symbol_table :
              n \in DOMAIN symbol_table' /\ symbol_table'[n] = symbol_table[n]
        /\ s \in DOMAIN symbol_table =>
              symbol_table' = symbol_table /\ sym_ret'.slot = symbol_table[s]
        /\ s \notin DOMAIN symbol_table =>
              /\ DOMAIN symbol_table' = DOMAIN symbol_table \cup {s}
              /\ sym_ret'.slot = Stack(0 - 8 * (Cardinality(DOMAIN symbol_table) + 1))
              /\ symbol_table'[s] = sym_ret'.slot

\* C6: over any sequence of _get_symbol calls on one table, the i-th distinct
\* name resolved has offset -8*i; a call with a name already in the table
\* returns its slot and leaves the table as it is; no call changes the
\* offset of a name already in the table.
C6_SymbolSlots ==
    /\ [](/\ DOMAIN symbol_table = OrderedNames
          /\ \A i \in 1..Len(sym_order) :
                symbol_table[sym_order[i]] = Stack(0 - 8 * i))
    /\ [][C6_CallEffect]_vars

C6_Witness ==
    /\ Len(sym_order) = 3
    /\ sym_ret = [symbol |-> sym_order[1], slot |-> Stack(0 - 8)]
    /\ symbol_table[sym_order[3]] = Stack(0 - 24)

\* C7: whatever c_to_tac invocations came before in the process, lowering
\* return ~(-2); yields Unary(Negate, 2, tmp0), Unary(Complement, tmp0, tmp1),
\* Return(tmp1).
C7_NumberedFromTmp0 ==
    (pc = "lowered" /\ Expr = CompNeg2) =>
        Body = <<TAC_Unary(TAC_Negate, TAC_Constant(2), TAC_Var("tmp0")),
                 TAC_Unary(TAC_Complement, TAC_Var("tmp0"), TAC_Var("tmp1")),
                 TAC_Return(TAC_Var("tmp1"))>>

\* the largest tmp number a run can claim
MaxTmp == MaxRuns * MaxDepth

\* C8: within one c_to_tac invocation the dst names of the Unary
\* instructions are pairwise distinct and carry consecutive tmp numbers,
\* increasing from the innermost operator outward.
C8_TmpNames ==
    pc = "lowered" =>
        LET n == Len(Body) - 1
        IN  /\ \A j, k \in 1..n : j # k => Body[j].dst.name # Body[k].dst.name
            /\ \E first \in 0..MaxTmp :
                  \A k \in 1..n : Body[k].dst.name = "tmp" \o ToString(first + k - 1)

C8_Witness ==
    /\ pc = "lowered"
    /\ Len(Body) = 4
    /\ startTmp = 1
    /\ Body[1].dst.name = "tmp1"
    /\ Body[3].dst.name = "tmp3"

\* C9: two runs of lowering, codegen and emission on the same C AST under
\* the same target, each entered with the temporary counter at 0, yield the
\* same TAC, the same ASM AST and the same assembly text.
C9_Deterministic ==
    (/\ pc = "emitted"
     /\ prev.tag = "Run"
     /\ prev.c_ast = c_ast
     /\ prev.target = current_target
     /\ prev.startTmp = 0
     /\ startTmp = 0) =>
        /\ prev.tac_ast = tac_ast
        /\ prev.statements = statements
        /\ prev.asm_text = asm_text

C9_Witness ==
    /\ pc = "emitted"
    /\ prev.tag = "Run"
    /\ prev.c_ast = c_ast
    /\ prev.target = current_target
    /\ prev.startTmp = 0
    /\ startTmp = 0
    /\ Depth(Expr) = 2
    /\ prev.asm_text = asm_text

\* --- reading the emitted text ---
\* the positions of character ch in string s
Positions(s, ch) == {i \in 1..Len(s) : SubSeq(s, i, i) = ch}

\* s up to its first ch (all of s when it has none)
TakeUntil(s, ch) ==
    LET hits == Positions(s, ch)
    IN  IF hits = {} THEN s
        ELSE SubSeq(s, 1, (CHOOSE i \in hits : \A j \in hits : i <= j) - 1)

\* the k-th newline-terminated line of text, without its newline
TextLine(text, k) ==
    LET nl == Positions(text, "\n")
        nth(m) == CHOOSE i \in nl : Cardinality({j \in nl : j <= i}) = m
    IN  SubSeq(text, IF k = 1 THEN 1 ELSE nth(k - 1) + 1, nth(k) - 1)

\* the label of a "\t.globl <label> ..." line
GloblLabel(line) ==
    IF Len(line) >= 8 /\ SubSeq(line, 1, 8) = "\t.globl "
    THEN TakeUntil(TakeUntil(SubSeq(line, 9, Len(line)), " "), "/")
    ELSE ""

\* the label of a "<label>: ..." line
DefLabel(line) == TakeUntil(line, ":")

\* C10: in the emitted text the label of the .globl line and the label of
\* the label-definition line are the same string: _f under darwin, f under
\* any other OS, for a function named f.
C10_LabelDecoration ==
    pc = "emitted" =>
        LET globl == GloblLabel(TextLine(asm_text, 1))
            def == DefLabel(TextLine(asm_text, 2))
            f == c_ast.funcdef.name
        IN  /\ globl = def
            /\ current_target.os = "darwin" => globl = "_" \o f
            /\ current_target.os # "darwin" => globl = f

C10_Witness ==
    /\ pc = "emitted"
    /\ current_target.os = "linux"
    /\ c_ast.funcdef.name = "f"
    /\ GloblLabel(TextLine(asm_text, 1)) = "f"
    /\ DefLabel(TextLine(asm_text, 2)) = "f"

\* --- the lines of the emitted text ---
RECURSIVE Ascending(_)
\* the numbers of a finite set, in ascending order
Ascending(S) ==
    IF S = {} THEN <<>>
    ELSE LET m == CHOOSE i \in S : \A j \in S : i <= j
         IN  <<m>> \o Ascending(S \ {m})

\* the newline-terminated lines of text, without their newlines
TextLines(text) ==
    LET nl == Ascending(Positions(text, "\n"))
    IN  [k \in 1..Len(nl) |->
            SubSeq(text, IF k = 1 THEN 1 ELSE nl[k - 1] + 1, nl[k] - 1)]

\* the visible width of s, a tab counting 8 columns
VisibleWidth(s) == Len(s) + 7 * Cardinality(Positions(s, "\t"))

\* TRUE iff s ends with suffix
EndsWith(s, suffix) ==
    /\ Len(s) >= Len(suffix)
    /\ SubSeq(s, Len(s) - Len(suffix) + 1, Len(s)) = suffix

\* TRUE iff s starts with prefix
StartsWith(s, prefix) ==
    /\ Len(s) >= Len(prefix)
    /\ SubSeq(s, 1, Len(prefix)) = prefix

\* a .globl line and a label-definition line, as functions of the label alone
GloblLineOf(label) ==
    "\t.globl " \o label \o Spaces(32 - VisibleWidth("\t.globl " \o label))
        \o "/* Make " \o label \o " externally visible. */"
DefLineOf(label, funcname) ==
    label \o ":" \o Spaces(32 - VisibleWidth(label \o ":"))
        \o "# Begin function " \o funcname \o "."

\* C11: the output for the same TAC program under another target differs
\* from the output under the current target only in the label of the .globl
\* line (and of its comment) and of the label-definition line: every other
\* statement and every other line is the same.
C11_TargetOnlyLabel ==
    pc = "emitted" =>
        \A t \in TargetSet :
            LET g == gen_Program(tac_ast, t)
                text == Program_gas(g.statements, t)
                other == TextLines(text)
                mine == TextLines(asm_text)
                f == tac_ast.funcdef.name
            IN  /\ g.ok
                /\ t = current_target => g.statements = statements /\ text = asm_text
                /\ Len(g.statements) = Len(statements)
                /\ \A k \in 2..Len(statements) : g.statements[k] = statements[k]
                /\ [g.statements[1] EXCEPT !.content = statements[1].content,
                                           !.comment = statements[1].comment]
                      = statements[1]
                /\ Len(other) = Len(mine)
                /\ \A k \in 3..Len(mine) : other[k] = mine[k]
                /\ other[1] = GloblLineOf(GloblLabel(other[1]))
                /\ mine[1] = GloblLineOf(GloblLabel(mine[1]))
                /\ other[2] = DefLineOf(DefLabel(other[2]), f)
                /\ mine[2] = DefLineOf(DefLabel(mine[2]), f)

C11_Witness ==
    /\ pc = "emitted"
    /\ current_target.os = "linux"
    /\ Depth(Expr) = 2
    /\ LET d == Target("darwin", "x86_64")
           other == TextLines(Program_gas(gen_Program(tac_ast, d).statements, d))
           mine == TextLines(asm_text)
       IN  /\ other[1] # mine[1]
           /\ other[2] # mine[2]
           /\ other[8] = mine[8]

\* C12: the text Program.gas() returns holds one line per statement, in
\* statement order, each ended by a newline: it ends with a newline and has
\* as many lines as the program has statements.
C12_OneLinePerStatement ==
    pc = "emitted" =>
        LET lines == TextLines(asm_text)
        IN  /\ EndsWith(asm_text, "\n")
            /\ Len(lines) = Len(statements)
            /\ \A k \in 1..Len(statements) :
                  lines[k] = statement_gas(statements[k], current_target)

C12_Witness ==
    /\ pc = "emitted"
    /\ Len(statements) = 16
    /\ Len(TextLines(asm_text)) = 16
    /\ EndsWith(asm_text, "# End function main.\n")

(***************************************************************************)
(* Comment layout of the emitted text.                                     *)
(***************************************************************************)
\* the position of the first character of the comment delimiter in a line
\* (0 when the line has none); statement text holds neither "#" nor "/"
DelimiterPos(line) ==
    LET hits == Positions(line, "#") \cup Positions(line, "/")
    IN  IF hits = {} THEN 0 ELSE CHOOSE i \in hits : \A j \in hits : i <= j

\* the part of a line before its comment delimiter
BeforeComment(line) == SubSeq(line, 1, DelimiterPos(line) - 1)

\* TRUE iff s consists of spaces only
OnlySpaces(s) == \A i \in 1..Len(s) : SubSeq(s, i, i) = " "

\* the part of a line between the statement text stmt and the delimiter
Gap(line, stmt) == SubSeq(BeforeComment(line), Len(stmt) + 1, Len(BeforeComment(line)))

\* the comment delimiter of line sits at visible column 32 after stmt and a
\* gap of spaces
AlignedComment(line, stmt) ==
    /\ DelimiterPos(line) > 0
    /\ StartsWith(BeforeComment(line), stmt)
    /\ OnlySpaces(Gap(line, stmt))
    /\ VisibleWidth(BeforeComment(line)) = 32

\* C13 as stated: in every emitted line that carries a comment the delimiter
\* begins at visible column 32, after a gap of spaces only.
C13_CommentColumn ==
    pc = "emitted" =>
        LET lines == TextLines(asm_text)
        IN  \A k \in 1..Len(statements) :
                get_comment(statements[k]).tag # "None" =>
                    AlignedComment(lines[k], statement_line(statements[k], current_target))

\* C13, amended: in every emitted line that carries a comment and whose
\* statement text is at most 32 visible columns wide, the delimiter begins at
\* visible column 32 after a gap of spaces only; after a wider statement text
\* the delimiter follows immediately, with no gap.
C13_CommentColumnIfFits ==
    pc = "emitted" =>
        LET lines == TextLines(asm_text)
        IN  \A k \in 1..Len(statements) :
                LET stmt == statement_line(statements[k], current_target)
                IN  get_comment(statements[k]).tag # "None" =>
                        IF VisibleWidth(stmt) <= 32
                        THEN AlignedComment(lines[k], stmt)
                        ELSE /\ DelimiterPos(lines[k]) > 0
                             /\ BeforeComment(lines[k]) = stmt

C13_Witness ==
    /\ pc = "emitted"
    /\ c_ast.funcdef.name = LongFuncName
    /\ LET lines == TextLines(asm_text)
       IN  /\ VisibleWidth(BeforeComment(lines[1])) > 32
           /\ VisibleWidth(BeforeComment(lines[2])) = 32
           /\ VisibleWidth(BeforeComment(lines[3])) = 32
           /\ Len(BeforeComment(lines[3])) = 25
           /\ BeforeComment(lines[Len(lines)]) = Spaces(32)

\* C14: the comment of a Directive is rendered between block-comment
\* delimiters, "/* text */", and the comment of an Instruction, a LabelDef or
\* a bare Comment after the end-of-line delimiter, "# text"; neither kind of
\* line holds the other delimiter.
C14_CommentDelimiters ==
    pc = "emitted" =>
        LET lines == TextLines(asm_text)
        IN  \A k \in 1..Len(statements) :
                LET c == get_comment(statements[k])
                IN  c.tag = "Str" =>
                        IF statements[k].kind = "Directive"
                        THEN /\ EndsWith(lines[k], "/* " \o c.s \o " */")
                             /\ Positions(lines[k], "#") = {}
                        ELSE /\ EndsWith(lines[k], "# " \o c.s)
                             /\ Positions(lines[k], "/") = {}
                             /\ Positions(lines[k], "*") = {}

C14_Witness ==
    /\ pc = "emitted"
    /\ {statements[k].kind : k \in 1..Len(statements)}
          = {"Directive", "LabelDef", "Pushq", "Movq", "Subq", "Movl", "Negl",
             "Notl", "Popq", "Ret", "Comment"}
    /\ LET lines == TextLines(asm_text)
       IN  /\ EndsWith(lines[1], " externally visible. */")
           /\ StartsWith(lines[Len(lines)], Spaces(32) \o "# End function ")

\* the kinds of statement that are instructions
InstructionKinds == Instruction0 \cup Instruction1 \cup Instruction2

\* C15: every emitted instruction line ends with a comment: the one codegen
\* supplied, or, where none was supplied, the opcode's default text; codegen
\* supplies none exactly for negl and notl, whose lines carry
\* "Negate %r11d." and "Flip all of the bits of %r11d.".
C15_InstructionComments ==
    pc = "emitted" =>
        LET lines == TextLines(asm_text)
        IN  \A k \in 1..Len(statements) :
                LET s == statements[k]
                IN  s.kind \in InstructionKinds =>
                        /\ Positions(lines[k], "#") # {}
                        /\ s.comment.tag \in {"Str", "None"}
                        /\ s.comment.tag = "Str" => EndsWith(lines[k], "# " \o s.comment.s)
                        /\ s.comment.tag = "None" <=> s.kind \in {"Negl", "Notl"}
                        /\ s.kind = "Negl" => EndsWith(lines[k], "# Negate %r11d.")
                        /\ s.kind = "Notl" =>
                               EndsWith(lines[k], "# Flip all of the bits of %r11d.")

C15_Witness ==
    /\ pc = "emitted"
    /\ LET lines == TextLines(asm_text)
       IN  /\ \E k \in 1..Len(lines) :
                 lines[k] = "\tnegl %r11d" \o Spaces(14) \o "# Negate %r11d."
           /\ \E k \in 1..Len(lines) :
                 lines[k] = "\tnotl %r11d" \o Spaces(14)
                                \o "# Flip all of the bits of %r11d."
           /\ \E k \in 1..Len(lines) : EndsWith(lines[k], "# Load.")

(***************************************************************************)
(* The statement list of the code generator.                               *)
(***************************************************************************)
\* the number of TAC instructions of the body whose translation has been
\* appended to statements
Translated == IF pc = "gen" THEN gen_i - 1 ELSE Len(Body)

\* the index in statements of the first statement of the k-th instruction of
\* a body of Unary instructions ended by a Return
BlockStart(k) == AllocateStackIndex + 3 * (k - 1) + 1

\* the operand an operand of TAC resolves to, read from the symbol table
Resolved(operand) ==
    IF operand.tag = "Constant"
    THEN [tag |-> "Imm", value |-> operand.value]
    ELSE symbol_table[operand.name]

\* stmt is a two-operand instruction of this kind and these operands
IsBinary(stmt, kind, src, dst) == stmt.kind = kind /\ stmt.src = src /\ stmt.dst = dst

\* stmt is a one-operand instruction of this kind and this operand
IsUnary(stmt, kind, arg) == stmt.kind = kind /\ stmt.arg = arg

\* C16: every TAC Unary is translated into exactly three statements, in
\* this order: movl of the resolved source (immediate or stack slot) into
\* %r11d, notl %r11d for Complement or negl %r11d for Negate, movl of %r11d
\* into the destination's stack slot.
C16_UnaryTranslation ==
    pc \in {"gen", "generated"} =>
        /\ \A k \in 1..Translated :
              Body[k].tag = "Unary" =>
                  /\ \A j \in 1..k : Body[j].tag = "Unary"
                  /\ Len(statements) >= BlockStart(k) + 2
                  /\ IsBinary(statements[BlockStart(k)], "Movl", Resolved(Body[k].src),
                              R11D)
                  /\ IsUnary(statements[BlockStart(k) + 1],
                             IF Body[k].op.tag = "Complement" THEN "Notl" ELSE "Negl",
                             R11D)
                  /\ IsBinary(statements[BlockStart(k) + 2], "Movl",
                              R11D,
                              symbol_table[Body[k].dst.name])
                  /\ symbol_table[Body[k].dst.name].tag = "Stack"
                  /\ Body[k].src.tag = "Var" => Resolved(Body[k].src).tag = "Stack"
        /\ pc = "gen" /\ (\A j \in 1..Translated : Body[j].tag = "Unary") =>
              Len(statements) = AllocateStackIndex + 3 * Translated

C16_Witness ==
    /\ pc = "generated"
    /\ Len(Body) = 3
    /\ Body[1].src.tag = "Constant" /\ Body[1].op.tag = "Negate"
    /\ Body[2].src.tag = "Var" /\ Body[2].op.tag = "Complement"
    /\ statements[BlockStart(1)].src.tag = "Imm"
    /\ statements[BlockStart(1) + 1].kind = "Negl"
    /\ statements[BlockStart(2)].src.tag = "Stack"
    /\ statements[BlockStart(2) + 1].kind = "Notl"
    /\ statements[BlockStart(2) + 2].dst.tag = "Stack"

\* C17: every TAC Return is translated into exactly four statements, in
\* this order: movl of the resolved value (immediate or stack slot) into
\* %eax, movq of %rbp into %rsp, popq %rbp, ret.
C17_ReturnTranslation ==
    pc \in {"gen", "generated"} =>
        \A k \in 1..Translated :
            Body[k].tag = "Return" =>
                /\ \A j \in 1..(k - 1) : Body[j].tag = "Unary"
                /\ IsBinary(statements[BlockStart(k)], "Movl", Resolved(Body[k].val), EAX)
                /\ IsBinary(statements[BlockStart(k) + 1], "Movq", RBP, RSP)
                /\ IsUnary(statements[BlockStart(k) + 2], "Popq", RBP)
                /\ statements[BlockStart(k) + 3].kind = "Ret"
                /\ Resolved(Body[k].val).tag = IF Body[k].val.tag = "Constant"
                                               THEN "Imm" ELSE "Stack"
                /\ Len(statements) = BlockStart(k) + 3 + (IF pc = "gen" THEN 0 ELSE 1)

C17_Witness ==
    /\ pc = "generated"
    /\ Len(Body) = 2
    /\ Body[2].tag = "Return" /\ Body[2].val.tag = "Var"
    /\ statements[BlockStart(2)] =
          Movl(Stack(0 - 8), EAX, Str("Use -8(%rbp) as the return value."))
    /\ statements[BlockStart(2) + 3].kind = "Ret"
    /\ Len(statements) = 13

\* the indices in statements of the translation of the k-th TAC instruction
Block(k) ==
    BlockStart(k)..(BlockStart(k) + (IF Body[k].tag = "Unary" THEN 2 ELSE 3))

\* the operand a TAC instruction reads
SourceOf(inst) == IF inst.tag = "Unary" THEN inst.src ELSE inst.val

\* the registers that hold values
ValueRegisters == {EAX, R11D}

\* stmt reads register r as a value
ReadsRegister(stmt, r) ==
    \/ stmt.kind \in {"Negl", "Notl", "Pushq"} /\ stmt.arg = r
    \/ stmt.kind \in {"Movl", "Movq"} /\ stmt.src = r
    \/ stmt.kind = "Subq" /\ (stmt.src = r \/ stmt.dst = r)

\* stmt is a load: it writes register r from an immediate or a stack slot
LoadsRegister(stmt, r) ==
    /\ stmt.kind = "Movl"
    /\ stmt.dst = r
    /\ stmt.src.tag \in {"Imm", "Stack"}

\* C18: every statement that reads a value register (%r11d: the negl/notl
\* and the store) is preceded, within the translation of the same TAC
\* instruction, by a load that writes it, and a source Var is loaded from the
\* stack slot the translation of an earlier instruction stored it into.
C18_LoadStoreDiscipline ==
    pc \in {"gen", "generated"} =>
        \A k \in 1..Translated :
            /\ \A i \in Block(k) : \A r \in ValueRegisters :
                  ReadsRegister(statements[i], r) =>
                      \E j \in Block(k) : j < i /\ LoadsRegister(statements[j], r)
            /\ \A i \in Block(k) :
                  (\E r \in ValueRegisters : LoadsRegister(statements[i], r))
                      /\ statements[i].src.tag = "Stack" =>
                          \E j \in 1..(k - 1) :
                              /\ Body[j].tag = "Unary"
                              /\ Body[j].dst = SourceOf(Body[k])
                              /\ statements[BlockStart(j) + 2] =
                                    Movl(R11D, statements[i].src, Str("Store."))

C18_Witness ==
    /\ pc = "generated"
    /\ Len(Body) = 4
    /\ \A k \in 2..3 :
          /\ statements[BlockStart(k)].src.tag = "Stack"
          /\ ReadsRegister(statements[BlockStart(k) + 1], R11D)
          /\ ReadsRegister(statements[BlockStart(k) + 2], R11D)
    /\ statements[BlockStart(4)].src = Stack(0 - 24)

\* the indices of the statements that satisfy a test on kind and operand
PushesRBP == {i \in 1..Len(statements) : IsUnary(statements[i], "Pushq", RBP)}
PopsRBP == {i \in 1..Len(statements) : IsUnary(statements[i], "Popq", RBP)}
StackStores ==
    {i \in 1..Len(statements) :
        statements[i].kind \in Instruction2 /\ statements[i].dst.tag = "Stack"}
Instructions == {i \in 1..Len(statements) : statements[i].kind \in InstructionKinds}

\* C19: the statement list of _gen_Function is the .globl directive, the
\* label definition, pushq %rbp, movq %rsp to %rbp, the subq allocating the
\* stack, the translation of the body and a final "End function" comment; it
\* has exactly one pushq %rbp and exactly one popq %rbp, the popq comes after
\* every store to a stack slot, and ret is the last instruction.
C19_FunctionLayout ==
    pc = "generated" =>
        LET n == Len(statements)
            f == tac_ast.funcdef.name
        IN  /\ n = AllocateStackIndex + 3 * (Len(Body) - 1) + 4 + 1
            /\ statements[1].kind = "Directive" /\ statements[1].name = ".globl"
            /\ statements[1].content \in {f, "_" \o f}
            /\ statements[2].kind = "LabelDef" /\ statements[2].name = f
            /\ IsUnary(statements[3], "Pushq", RBP)
            /\ IsBinary(statements[4], "Movq", RSP, RBP)
            /\ statements[5].kind = "Subq" /\ statements[5].dst = RSP
            /\ \A i \in 6..(n - 1) : statements[i].kind \in {"Movl", "Negl", "Notl", "Movq", "Popq", "Ret"}
            /\ \A k \in 1..Len(Body) : \A i \in Block(k) : i \in 6..(n - 1)
            /\ statements[n] = Comment(Str("End function " \o f \o "."))
            /\ PushesRBP = {3}
            /\ Cardinality(PopsRBP) = 1
            /\ \A p \in PopsRBP : \A i \in StackStores : i < p
            /\ \A i \in Instructions : statements[i].kind = "Ret" <=> i = n - 1
            /\ n - 1 \in Instructions

C19_Witness ==
    /\ pc = "generated"
    /\ Len(statements) = 16
    /\ StackStores = {8, 11}
    /\ PopsRBP = {14}
    /\ statements[15].kind = "Ret"
    /\ statements[16].kind = "Comment"

\* what the translation of the TAC instruction at gen_i does to the symbol
\* table
C20_Step ==
    pc = "gen" /\ gen_i' = gen_i + 1 =>
        LET inst == Body[gen_i]
        IN  /\ SourceOf(inst).tag = "Var" => SourceOf(inst).name \in DOMAIN symbol_table
            /\ \A n \in DOMAIN symbol_table :
                  n \in DOMAIN symbol_table' /\ symbol_table'[n] = symbol_table[n]
            /\ IF inst.tag = "Unary"
               THEN /\ inst.dst.name \notin DOMAIN symbol_table
                    /\ DOMAIN symbol_table' = DOMAIN symbol_table \cup {inst.dst.name}
                    /\ Cardinality(DOMAIN symbol_table')
                          = Cardinality(DOMAIN symbol_table) + 1
               ELSE symbol_table' = symbol_table

\* C20: in the code generation of a lowered TAC program, resolving a Unary's
\* destination always allocates a new slot, the symbol table growing by
\* exactly one per Unary, and resolving a Unary's source or a Return's value
\* never allocates: the Var is in the table already.
C20_Allocation == [][C20_Step]_vars

C20_Witness ==
    /\ pc = "generated"
    /\ Len(Body) = 4
    /\ Body[2].src.tag = "Var" /\ Body[4].val.tag = "Var"
    /\ Cardinality(DOMAIN symbol_table) = 3
    /\ DOMAIN symbol_table = {Body[k].dst.name : k \in 1..3}

\* stmt holds the Fixup placeholder as an operand or as its comment
HasFixup(stmt) ==
    \E f \in DOMAIN stmt \cap {"src", "dst", "arg", "comment"} : stmt[f] = Fixup

\* C21: the statement list gen_Program returns holds no Fixup placeholder,
\* and while the loop over the body has not ended the stack-allocation
\* instruction still holds the placeholder as its source and as its comment:
\* both are replaced only after every TAC instruction has been translated.
C21_FixupResolved ==
    /\ pc \in {"generated", "emitted", "running", "returned"} =>
          /\ \A k \in 1..Len(statements) : ~HasFixup(statements[k])
          /\ statements[AllocateStackIndex].src.tag = "Stack"
          /\ statements[AllocateStackIndex].comment.tag = "Str"
    /\ pc = "gen" =>
          /\ statements[AllocateStackIndex].src = Fixup
          /\ statements[AllocateStackIndex].comment = Fixup
          /\ \A k \in 1..Len(statements) : HasFixup(statements[k]) <=> k = AllocateStackIndex

C21_Witness ==
    /\ pc = "generated"
    /\ Len(Body) = 3
    /\ statements[AllocateStackIndex] =
          Subq(Stack(0 - 16), RSP, Str("Allocate 16 bytes on the stack for locals."))

(***************************************************************************)
(* Lowering on its own: c_to_tac called on any C AST, well-formed or not,  *)
(* any number of times in one process; an exception is caught by the       *)
(* caller.                                                                 *)
(***************************************************************************)
\* an Expression that is neither a Constant nor a Unary, and a
\* UnaryOperator that is neither Complement nor Negate
C_OtherExpression == [tag |-> "Other"]
C_OtherOperator == [tag |-> "OtherOp"]

RECURSIVE C_AnyExpressions(_)
\* the expressions, of the subset or not, with at most d nested operators
C_AnyExpressions(d) ==
    IF d = 0 THEN {C_Constant(2), C_OtherExpression}
    ELSE LET sub == C_AnyExpressions(d - 1)
         IN  sub \cup {C_Unary(op, e) :
                          op \in C_UnaryOperators \cup {C_OtherOperator}, e \in sub}

C_AnyPrograms ==
    {C_Program(C_Function("main", C_Return(e))) : e \in C_AnyExpressions(MaxDepth)}

\* the caller is done with the result, or has caught the exception
Abandon ==
    /\ pc \in {"lowered", "failed"}
    /\ pc' = "start"
    /\ UNCHANGED <<nextTmp, current_target, runs, c_ast, startTmp, tac_ast, genVars,
                   asm_text, machineVars, prev, symVars>>
    /\ UNCHANGED driverVars

NextLowering ==
    \/ \E p \in C_AnyPrograms : Parse(p)
    \/ Lower
    \/ Abandon

SpecLowering == Init /\ [][NextLowering]_vars

RECURSIVE WellFormed(_)
\* e is of the shape {Constant, Unary(Complement | Negate, Expression)}
WellFormed(e) ==
    CASE e.tag = "Constant" -> TRUE
      [] e.tag = "Unary" -> e.op.tag \in {"Complement", "Negate"} /\ WellFormed(e.expr)
      [] OTHER -> FALSE

\* C22: c_to_tac fails exactly on the C ASTs whose return expression holds,
\* at some depth, a node outside {Constant, Unary(Complement | Negate, _)},
\* and a failed call returns nothing: no TAC program, no instruction list.
C22_UnsupportedExpression ==
    pc \in {"lowered", "failed"} /\ c_ast # NoAst =>
        /\ pc = "failed" <=> ~WellFormed(Expr)
        /\ pc = "failed" =>
              /\ tac_ast = NoAst
              /\ DOMAIN c_to_tac(c_ast, startTmp) = {"ok", "nextTmp"}
        /\ pc = "lowered" => tac_ast.tag = "Program" /\ Len(Body) = Depth(Expr) + 1

C22_Witness ==
    /\ pc = "failed"
    /\ tac_ast = NoAst
    /\ Expr = C_Unary(C_Negate, C_Unary(C_Complement,
                  C_Unary(C_Negate, C_OtherExpression)))

\* C28 as stated: a c_to_tac call that fails leaves the temporary counter as
\* it was before the call.
C28_FailureKeepsCounter == pc = "failed" => nextTmp = startTmp

(***************************************************************************)
(* Code generation on its own: gen_Program called on any TAC program,      *)
(* of the closed sets of tac.py or not.                                    *)
(***************************************************************************)
\* longest body of a TAC program given to gen_Program directly
MaxBody == 2

\* an Instruction that is neither Unary nor Return, an Operand that is
\* neither Constant nor Var, a UnaryOperator that is neither Complement nor
\* Negate
TAC_OtherInstruction == [tag |-> "Other"]
TAC_OtherOperand == [tag |-> "Other"]
TAC_OtherOperator == [tag |-> "OtherOp"]

TAC_AnyInstructions ==
    {TAC_Unary(op, src, dst) :
        op \in {TAC_Complement, TAC_Negate, TAC_OtherOperator},
        src \in {TAC_Constant(2), TAC_Var("tmp0"), TAC_OtherOperand},
        dst \in {TAC_Var("tmp0"), TAC_Var("tmp1"), TAC_OtherOperand}}
    \cup {TAC_Return(val) : val \in {TAC_Constant(2), TAC_Var("tmp0"), TAC_OtherOperand}}
    \cup {TAC_OtherInstruction}

RECURSIVE TAC_Bodies(_)
\* the instruction lists of length n
TAC_Bodies(n) ==
    IF n = 0 THEN {<<>>}
    ELSE {Append(b, i) : b \in TAC_Bodies(n - 1), i \in TAC_AnyInstructions}

\* the programs of one function whose body holds 1..maxBody instructions
TAC_AnyPrograms(maxBody) ==
    {TAC_Program(TAC_Function("main", b)) :
        b \in UNION {TAC_Bodies(n) : n \in 1..maxBody}}

\* the caller holds a TAC program and is about to call gen_Program
InitCodegen ==
    /\ nextTmp = 0
    /\ current_target \in TargetSet
    /\ pc = "lowered"
    /\ runs = 1
    /\ c_ast = NoAst
    /\ startTmp = 0
    /\ tac_ast \in TAC_AnyPrograms(MaxBody)
    /\ symbol_table = EmptyTable
    /\ statements = <<>>
    /\ gen_i = 0
    /\ asm_text = ""
    /\ regs = [rsp |-> StackTop, rbp |-> CallerRBP, eax |-> 0, r11d |-> 0]
    /\ mem = [a \in {} |-> 0]
    /\ ip = 0
    /\ prev = NoPrev
    /\ sym_ret = [symbol |-> "", slot |-> Stack(0)]
    /\ sym_order = <<>>
    /\ NoDriver

NextCodegen ==
    \/ GenBegin
    \/ GenInstruction
    \/ GenEnd

SpecCodegen == InitCodegen /\ [][NextCodegen]_vars

\* inst is of a shape of the closed sets: a Unary of Complement or Negate or
\* a Return, its operands Constants or Vars
ValidShape(inst) ==
    CASE inst.tag = "Unary" ->
            /\ inst.op.tag \in {"Complement", "Negate"}
            /\ inst.src.tag \in {"Constant", "Var"}
            /\ inst.dst.tag \in {"Constant", "Var"}
      [] inst.tag = "Return" -> inst.val.tag \in {"Constant", "Var"}
      [] OTHER -> FALSE

MaxArgv == 4

\* the words of the command lines
ArgvTokens ==
    {"--help", "--codgen", "--codegen", "-S", "--parse", "--target",
     "linux-x86_64", "darwin-x86_64", "amd64_darwin", "darwin", "foo.c"}

Argvs == UNION {[1..n -> ArgvTokens] : n \in 0..MaxArgv}

\* flag_names and option_names of parse_command_line
flag_names(ch) ==
    IF ch = 1
    THEN {"--help", "--lex", "--parse", "--codgen", "-S", "-c", "--c-ast",
          "--asm-ast", "--list-targets"}
    ELSE {"--lex", "--parse", "--codgen", "--validate", "--tacky", "--codegen",
          "--run", "-S", "-c", "--c-ast", "--asm-ast"}
option_names(ch) == IF ch = 1 THEN {"-o", "--target", "--indent"} ELSE {"-o", "--target"}

RECURSIVE parse_command_line_from(_, _, _, _)
\* the loop of parse_command_line from word i on; ok is FALSE where it exits
\* because an option lacks its argument
parse_command_line_from(words, ch, i, acc) ==
    IF i > Len(words) THEN acc
    ELSE IF words[i] \in flag_names(ch)
    THEN parse_command_line_from(words, ch, i + 1,
             [acc EXCEPT !.flags = @ \cup {words[i]}])
    ELSE IF words[i] \in option_names(ch)
    THEN IF i + 1 > Len(words) THEN [acc EXCEPT !.ok = FALSE]
         ELSE parse_command_line_from(words, ch, i + 2,
                  [acc EXCEPT !.options =
                      [o \in DOMAIN @ \cup {words[i]} |->
                          IF o = words[i] THEN words[i + 1] ELSE @[o]]])
    ELSE parse_command_line_from(words, ch, i + 1,
             [acc EXCEPT !.args = Append(@, words[i])])

parse_command_line(words, ch) ==
    parse_command_line_from(words, ch, 1,
        [ok |-> TRUE, flags |-> {}, options |-> NoOptions, args |-> <<>>])

\* Target.from_str: the first two of the parts target_str.split('-') gives;
\* ok is FALSE where there is no second part (IndexError)
from_str(target_str) ==
    LET dashes == Ascending(Positions(target_str, "-"))
    IN  IF Len(dashes) = 0 THEN [ok |-> FALSE]
        ELSE [ok |-> TRUE,
              target |->
                  Target(SubSeq(target_str, 1, dashes[1] - 1),
                         SubSeq(target_str, dashes[1] + 1,
                                IF Len(dashes) >= 2 THEN dashes[2] - 1
                                ELSE Len(target_str)))]

\* Target.from_str of chapter 1: arch, then os, around the first "_"; ok is
\* FALSE where there is no "_" (IndexError)
ch1_from_str(target_str) ==
    LET unders == Ascending(Positions(target_str, "_"))
    IN  IF Len(unders) = 0 THEN [ok |-> FALSE]
        ELSE [ok |-> TRUE,
              target |->
                  Target(SubSeq(target_str, unders[1] + 1, Len(target_str)),
                         SubSeq(target_str, 1, unders[1] - 1))]

\* Targets.supported_targets of chapter 1
ch1_supported_targets == <<Target("darwin", "amd64")>>

\* Targets.supported_targets and Target.from_str of the driver of a chapter
driver_supported_targets(ch) ==
    IF ch = 1 THEN ch1_supported_targets ELSE supported_targets
driver_from_str(ch, target_str) ==
    IF ch = 1 THEN ch1_from_str(target_str) ELSE from_str(target_str)

\* target in targets, every target passing
target_supported_any(target, targets) == TRUE

\* target in targets
target_supported(target, targets) ==
    \E i \in 1..Len(targets) : targets[i] = target

\* what C.parse may return for the input file: function main returning an
\* expression of at most one operator
DriverPrograms ==
    {C_Program(C_Function("main", C_Return(e))) : e \in C_Expressions(1)}

\* x86_64.gen_Program of chapter 1: the instructions of the function; ok is
\* FALSE where an assert fails
ch1_gen_Program(ast) ==
    IF ast.funcdef.body.expr.tag # "Constant" THEN [ok |-> FALSE]
    ELSE [ok |-> TRUE,
          statements |->
              <<Movl(Imm(ast.funcdef.body.expr.value), EAX,
                     Str("Return value = "
                            \o ToString(ast.funcdef.body.expr.value) \o ".")),
                Ret(NoComment)>>]

RECURSIVE ch1_instruction_lines(_, _)
\* instruction.gas() of chapter 1 for each instruction, each followed by "\n"
ch1_instruction_lines(instructions, target) ==
    IF instructions = <<>> THEN ""
    ELSE _add_comment(statement_line(Head(instructions), target),
                      get_comment(Head(instructions)), TRUE)
             \o "\n" \o ch1_instruction_lines(Tail(instructions), target)

\* Function.gas of chapter 1
ch1_Function_gas(name, instructions, target) ==
    LET label == format_label(name, target)
    IN  _add_comment("\t.globl " \o label,
                     Str("Make " \o label \o " globally visible."), TRUE) \o "\n"
        \o _add_comment(label \o ":", Str("Begin function " \o name \o "."), TRUE)
        \o "\n"
        \o ch1_instruction_lines(instructions, target)

\* isinstance(tac_ast, TAC.Program) in gen_Program of chapter 2
IsTacProgram(arg) == arg.module = "TAC"

\* the variables the drivers leave alone
libraryVars == <<nextTmp, runs, startTmp, tac_ast, symbol_table, gen_i, regs, mem,
                 ip, prev, sym_ret, sym_order>>

\* a driver is started on a command line; Targets.current_target is
\* supported_targets[0]
InitDriver ==
    /\ nextTmp = 0
    /\ chapter \in {1, 2}
    /\ current_target = driver_supported_targets(chapter)[1]
    /\ pc = "d_cmdline"
    /\ runs = 0
    /\ c_ast = NoAst
    /\ startTmp = 0
    /\ tac_ast = NoAst
    /\ symbol_table = EmptyTable
    /\ statements = <<>>
    /\ gen_i = 0
    /\ asm_text = ""
    /\ regs = [rsp |-> StackTop, rbp |-> CallerRBP, eax |-> 0, r11d |-> 0]
    /\ mem = [a \in {} |-> 0]
    /\ ip = 0
    /\ prev = NoPrev
    /\ sym_ret = [symbol |-> "", slot |-> Stack(0)]
    /\ sym_order = <<>>
    /\ argv \in Argvs
    /\ g_flags = {}
    /\ g_options = NoOptions
    /\ g_args = <<>>
    /\ exit_status = NoStatus
    /\ stages = <<>>
    /\ gen_arg = NoAst

\* (g_flags, g_options, g_args) = parse_command_line()
ParseCommandLine ==
    /\ pc = "d_cmdline"
    /\ LET r == parse_command_line(argv, chapter)
       IN  IF r.ok
           THEN /\ g_flags' = r.flags
                /\ g_options' = r.options
                /\ g_args' = r.args
                /\ pc' = "d_input"
                /\ exit_status' = exit_status
           ELSE /\ pc' = "d_exit"
                /\ exit_status' = 1
                /\ UNCHANGED <<g_flags, g_options, g_args>>
    /\ UNCHANGED <<libraryVars, current_target, c_ast, statements, asm_text, chapter,
                   argv, stages, gen_arg>>

\* --help and --list-targets (chapter 1), then the input filename
DetermineInput ==
    /\ pc = "d_input"
    /\ IF chapter = 1 /\ ("--help" \in g_flags \/ "--list-targets" \in g_flags)
       THEN pc' = "d_exit" /\ exit_status' = 0
       ELSE IF Len(g_args) # 1
       THEN pc' = "d_exit" /\ exit_status' = 1
       ELSE pc' = "d_target" /\ exit_status' = exit_status
    /\ UNCHANGED <<libraryVars, current_target, c_ast, statements, asm_text, chapter,
                   argv, g_flags, g_options, g_args, stages, gen_arg>>

\* determine the target
DetermineTarget ==
    /\ pc = "d_target"
    /\ IF "--target" \in DOMAIN g_options
       THEN LET t == driver_from_str(chapter, g_options["--target"])
            IN  IF t.ok /\ target_supported(t.target, driver_supported_targets(chapter))
                THEN /\ current_target' = t.target
                     /\ pc' = "d_cc"
                     /\ exit_status' = exit_status
                ELSE /\ pc' = "d_exit"
                     /\ exit_status' = 1
                     /\ current_target' = current_target
       ELSE /\ pc' = "d_cc"
            /\ UNCHANGED <<current_target, exit_status>>
    /\ UNCHANGED <<libraryVars, c_ast, statements, asm_text, chapter, argv, g_flags,
                   g_options, g_args, stages, gen_arg>>

\* find a compiler for preprocessing and final machine code output
FindCompiler(found) ==
    /\ pc = "d_cc"
    /\ IF found
       THEN pc' = "d_preprocess" /\ exit_status' = exit_status
       ELSE pc' = "d_exit" /\ exit_status' = 1
    /\ UNCHANGED <<libraryVars, current_target, c_ast, statements, asm_text, chapter,
                   argv, g_flags, g_options, g_args, stages, gen_arg>>

\* preprocess the input; status is the exit status of the compiler
Preprocess(status) ==
    /\ pc = "d_preprocess"
    /\ stages' = Append(stages, "preprocess")
    /\ IF status # 0
       THEN pc' = "d_exit" /\ exit_status' = status
       ELSE pc' = "d_parse" /\ exit_status' = exit_status
    /\ UNCHANGED <<libraryVars, current_target, c_ast, statements, asm_text, chapter,
                   argv, g_flags, g_options, g_args, gen_arg>>

\* build the AST: C.parse raises, or returns p (chapter 1 asserts that the
\* function returns a constant)
BuildAst(p, raised) ==
    /\ pc = "d_parse"
    /\ stages' = Append(stages, "parse")
    /\ IF raised \/ (chapter = 1 /\ p.funcdef.body.expr.tag # "Constant")
       THEN /\ pc' = "d_exit"
            /\ exit_status' = 1
            /\ c_ast' = c_ast
       ELSE /\ c_ast' = p
            /\ IF g_flags \cap {"--c-ast", "--lex", "--parse"} # {}
               THEN pc' = "d_exit" /\ exit_status' = 0
               ELSE pc' = "d_codegen" /\ exit_status' = exit_status
    /\ UNCHANGED <<libraryVars, current_target, statements, asm_text, chapter, argv,
                   g_flags, g_options, g_args, gen_arg>>

\* asm_ast = x86_64.gen_Program(c_ast)
GenerateAssembly ==
    /\ pc = "d_codegen"
    /\ stages' = Append(stages, "codegen")
    /\ gen_arg' = [module |-> "C", ast |-> c_ast]
    /\ LET g == IF chapter = 1 THEN ch1_gen_Program(c_ast)
                ELSE IF IsTacProgram(gen_arg') THEN gen_Program(c_ast, current_target)
                ELSE [ok |-> FALSE]
       IN  IF ~g.ok
           THEN /\ pc' = "d_exit"
                /\ exit_status' = 1
                /\ statements' = statements
           ELSE /\ statements' = g.statements
                /\ IF "--asm-ast" \in g_flags
                   THEN pc' = "d_exit" /\ exit_status' = 0
                   ELSE pc' = "d_emit" /\ exit_status' = exit_status
    /\ UNCHANGED <<libraryVars, current_target, c_ast, asm_text, chapter, argv,
                   g_flags, g_options, g_args>>

\* asm_text = asm_ast.gas(), written to the assembly file; stop after codegen
EmitAssembly ==
    /\ pc = "d_emit"
    /\ asm_text' = IF chapter = 1
                   THEN ch1_Function_gas(c_ast.funcdef.name, statements, current_target)
                   ELSE Program_gas(statements, current_target)
    /\ stages' = stages \o <<"gas", "write">>
    /\ IF "--codegen" \in g_flags \/ "-S" \in g_flags
       THEN pc' = "d_exit" /\ exit_status' = 0
       ELSE pc' = "d_assemble" /\ exit_status' = exit_status
    /\ UNCHANGED <<libraryVars, current_target, c_ast, statements, chapter, argv,
                   g_flags, g_options, g_args, gen_arg>>

\* use the compiler to assemble and link; status is its exit status
Assemble(status) ==
    /\ pc = "d_assemble"
    /\ stages' = Append(stages, "assemble")
    /\ pc' = "d_exit"
    /\ exit_status' = status
    /\ UNCHANGED <<libraryVars, current_target, c_ast, statements, asm_text, chapter,
                   argv, g_flags, g_options, g_args, gen_arg>>

NextDriver ==
    \/ ParseCommandLine
    \/ DetermineInput
    \/ DetermineTarget
    \/ \E found \in BOOLEAN : FindCompiler(found)
    \/ \E status \in {0, 1} : Preprocess(status)
    \/ \E p \in DriverPrograms, raised \in BOOLEAN : BuildAst(p, raised)
    \/ GenerateAssembly
    \/ EmitAssembly
    \/ \E status \in {0, 1} : Assemble(status)

SpecDriver == InitDriver /\ [][NextDriver]_vars

\* the index of the first occurrence of stage in stages (0 when there is none)
StageIndex(stage) ==
    LET hits == {i \in 1..Len(stages) : stages[i] = stage}
    IN  IF hits = {} THEN 0 ELSE CHOOSE i \in hits : \A j \in hits : i <= j

\* C24 as stated: in the chapter-2 driver, when code generation is reached,
\* lowering has run on the parsed C AST before and gen_Program has received
\* the TAC program, not the C AST.
C24_LinearDataFlow ==
    chapter = 2 /\ StageIndex("codegen") > 0 =>
        /\ StageIndex("lower") > 0
        /\ StageIndex("lower") < StageIndex("codegen")
        /\ IsTacProgram(gen_arg)

\* C26 as stated: in the chapter-1 driver the flag --codgen stops the driver
\* after code generation: once the assembly file is written the driver exits
\* with status 0 and the compiler is not invoked to assemble or link.
C26_CodgenStops ==
    chapter = 1 /\ "--codgen" \in g_flags /\ StageIndex("write") > 0 =>
        /\ pc = "d_exit"
        /\ exit_status = 0
        /\ StageIndex("assemble") = 0

\* --target names a target that is not supported: it cannot be read as a
\* target, or the target read is not in supported_targets
UnsupportedTargetNamed ==
    /\ "--target" \in DOMAIN g_options
    /\ LET t == driver_from_str(chapter, g_options["--target"])
       IN  ~t.ok \/ \A i \in 1..Len(driver_supported_targets(chapter)) :
                        driver_supported_targets(chapter)[i] # t.target

\* nothing of the pipeline has run and current_target is as the module set it
NothingRun ==
    /\ stages = <<>>
    /\ c_ast = NoAst /\ statements = <<>> /\ asm_text = ""
    /\ current_target = driver_supported_targets(chapter)[1]
    /\ pc \in {"d_input", "d_target", "d_exit"}

\* C25 as stated: when --target names an unsupported target the driver exits
\* with status 1 before preprocessing, parsing, lowering, code generation or
\* emission runs, and current_target keeps its value.
C25_UnsupportedTarget ==
    UnsupportedTargetNamed =>
        /\ NothingRun
        /\ pc = "d_exit" => exit_status = 1

\* C25, amended: when --target names an unsupported target the driver exits
\* before preprocessing, parsing, lowering, code generation or emission runs
\* and current_target keeps its value; the exit status is 1, except that the
\* chapter-1 driver given --help or --list-targets exits with status 0
\* before it looks at the target.
C25_UnsupportedTargetUnlessHelp ==
    UnsupportedTargetNamed =>
        /\ NothingRun
        /\ pc = "d_exit" =>
              exit_status =
                  IF chapter = 1 /\ g_flags \cap {"--help", "--list-targets"} # {}
                  THEN 0 ELSE 1

C25_Witness ==
    /\ pc = "d_exit"
    /\ chapter = 2
    /\ argv = <<"--target", "linux-x86_64", "foo.c">>
    /\ g_args = <<"foo.c">>
    /\ exit_status = 1
    /\ current_target = Target("darwin", "x86_64")
    /\ stages = <<>>

----------------------------------------------------------------------------
\* C27: a run of the pipeline on a C AST under a target yields the same
\* ASM AST and the same assembly text as the first run of that C AST under
\* that target, whatever value the temporary counter had when each run
\* began; when the two runs began with different counters and the program
\* has temporaries, their TAC programs (the temporary names) differ.
C27_CounterIndependent ==
    (/\ pc = "emitted"
     /\ prev.tag = "Run"
     /\ prev.c_ast = c_ast
     /\ prev.target = current_target) =>
        /\ prev.statements = statements
        /\ prev.asm_text = asm_text
        /\ (Len(Body) > 1 /\ startTmp # prev.startTmp => tac_ast # prev.tac_ast)

C27_Witness ==
    /\ pc = "emitted"
    /\ prev.tag = "Run"
    /\ prev.c_ast = c_ast
    /\ prev.target = current_target
    /\ prev.startTmp = 0
    /\ startTmp = 2
    /\ Depth(Expr) = 2
    /\ Body[1].dst.name = "tmp2"
    /\ prev.tac_ast.funcdef.body[1].dst.name = "tmp0"
    /\ prev.statements = statements
    /\ prev.asm_text = asm_text

----------------------------------------------------------------------------
(***************************************************************************)
(* A caller that changes Targets.current_target between gen_Program and    *)
(* gas().  prev records the target that was in force when gen_Program ran. *)
(***************************************************************************)
Retarget(t) ==
    /\ pc = "generated"
    /\ t # current_target
    /\ current_target' = t
    /\ prev' = IF prev.tag = "Retargeted" THEN prev
                ELSE [tag |-> "Retargeted", target |-> current_target]
    /\ UNCHANGED <<lowerVars, pc, runs, c_ast, genVars, asm_text, machineVars,
                   symVars>>
    /\ UNCHANGED driverVars

InitRetarget == Init

NextRetarget ==
    \/ \E p \in C_Programs : Parse(p)
    \/ Lower
    \/ GenBegin
    \/ GenInstruction
    \/ GenEnd
    \/ \E t \in TargetSet : Retarget(t)
    \/ Gas

SpecRetarget == InitRetarget /\ [][NextRetarget]_vars

----------------------------------------------------------------------------
(***************************************************************************)
(* Statement.gas on single statements whose text is about comment_col      *)
(* visible columns wide, with and without a comment.                       *)
(***************************************************************************)
MaxLabel == 34
\* a label of n characters
Label(n) ==
    SubSeq("abcdefghijklmnopqrstuvwxyz_0123456789_ABCDEFGHIJKLMNOPQRSTUVWXYZ", 1, n)

CommentValues == {NoComment, Str("x"), Str("Make it visible.")}

WideStatements ==
    {Directive(".globl", Label(n), c) : n \in 13..21, c \in CommentValues}
    \cup {LabelDef(Label(n), c) : n \in 28..MaxLabel, c \in CommentValues}

\* the caller holds a program of one statement and is about to call gas()
InitComment ==
    /\ nextTmp = 0
    /\ current_target \in TargetSet
    /\ pc = "generated"
    /\ runs = 1
    /\ c_ast = NoAst
    /\ startTmp = 0
    /\ tac_ast = NoAst
    /\ symbol_table = EmptyTable
    /\ statements \in {<<s>> : s \in WideStatements}
    /\ gen_i = 0
    /\ asm_text = ""
    /\ regs = [rsp |-> StackTop, rbp |-> CallerRBP, eax |-> 0, r11d |-> 0]
    /\ mem = [a \in {} |-> 0]
    /\ ip = 0
    /\ prev = NoPrev
    /\ sym_ret = [symbol |-> "", slot |-> Stack(0)]
    /\ sym_order = <<>>
    /\ NoDriver

NextComment == Gas

SpecComment == InitComment /\ [][NextComment]_vars

\* C30: in an emitted line whose statement text is 32 or more visible
\* columns wide and that carries a comment, the whole statement text is
\* followed at once by the comment delimiter, without a space between them,
\* and the line ends with the whole comment; it holds nothing else.
C30_NoPadding ==
    pc = "emitted" =>
        LET lines == TextLines(asm_text)
        IN  \A k \in 1..Len(statements) :
                LET stmt == statement_line(statements[k], current_target)
                    c == get_comment(statements[k])
                    c_style == statements[k].kind = "Directive"
                IN  c.tag = "Str" /\ VisibleWidth(stmt) >= 32 =>
                        /\ StartsWith(lines[k], stmt)
                        /\ SubSeq(lines[k], Len(stmt) + 1, Len(stmt) + 2)
                                = (IF c_style THEN "/*" ELSE "# ")
                        /\ EndsWith(lines[k], IF c_style THEN c.s \o " */" ELSE c.s)
                        /\ Len(lines[k]) = Len(stmt) + Len(c.s) + (IF c_style THEN 6 ELSE 2)

C30_Witness ==
    /\ pc = "emitted"
    /\ statements[1].kind = "Directive"
    /\ VisibleWidth(statement_line(statements[1], current_target)) = 32
    /\ asm_text = "\t.globl " \o Label(17) \o "/* Make it visible. */\n"
============================================================================
